---- MODULE Spec2Model ----
(***************************************************************************)
(* A model of the chess engine: the mailbox Board with incremental Zobrist *)
(* hashing (src/board.py), the legal move generator with pin and check     *)
(* detection (src/move_generator.py), the FEN loader (src/utils.py) and    *)
(* the iterative-deepening search (src/backend/engine.py).                 *)
(*                                                                         *)
(* Representation notes.                                                   *)
(*  - Piece tokens are the one-character strings of the source.  The       *)
(*    out-of-bounds cell, the integer -1 in the source, is the string      *)
(*    "-1" so that a mailbox holds values of one kind.                     *)
(*  - Python's None is NoSquare (0) where a square index is expected and   *)
(*    None ("None") where a piece token is expected; both are falsy in     *)
(*    the source's truth tests and are tested here by equality.            *)
(*  - A 64-bit Zobrist value is the tuple of its 16 hexadecimal digits,    *)
(*    most significant first; XOR works digit by digit.  The key tables    *)
(*    hold the values random.seed(0) produces in src/board.py.             *)
(*  - A Python list is a sequence; a Board object is a record of its       *)
(*    attributes, and the in-place methods make_move / unmake_move are     *)
(*    operators from the Board before to the Board after.                  *)
(***************************************************************************)
EXTENDS Integers, Sequences, FiniteSets, TLC

EMPTY == "#"
OUT_OF_BOUNDS == "-1"
None == "None"
NoSquare == 0

WHITE_PIECES == <<"K", "Q", "R", "B", "N", "P">>
BLACK_PIECES == <<"k", "q", "r", "b", "n", "p">>
WhiteSet == {"K", "Q", "R", "B", "N", "P"}
BlackSet == {"k", "q", "r", "b", "n", "p"}
Tokens == WhiteSet \cup BlackSet

\* str.lower() on a piece token
Lower(t) ==
  CASE t = "K" -> "k" [] t = "Q" -> "q" [] t = "R" -> "r"
    [] t = "B" -> "b" [] t = "N" -> "n" [] t = "P" -> "p"
    [] OTHER -> t

PIECE_CODES ==
  [t \in Tokens |->
     CASE t = "P" -> 0 [] t = "N" -> 1 [] t = "B" -> 2 [] t = "R" -> 3
       [] t = "Q" -> 4 [] t = "K" -> 5 [] t = "p" -> 6 [] t = "n" -> 7
       [] t = "b" -> 8 [] t = "r" -> 9 [] t = "q" -> 10 [] t = "k" -> 11]

\* the 120-index to 64-index table: -1 outside the playable squares
TO_64 ==
  [i \in 0..119 |->
     IF i \div 10 >= 2 /\ i \div 10 <= 9 /\ i % 10 >= 1 /\ i % 10 <= 8
     THEN 8 * ((i \div 10) - 2) + (i % 10) - 1
     ELSE -1]

DIRECTION_DELTAS == <<-10, 10, 1, -1, -9, -11, 11, 9>>
KING_DELTAS == <<1, -1, 10, -10, 9, -9, 11, -11>>
KNIGHT_DELTAS == <<8, 12, 19, 21, -8, -12, -19, -21>>
ROOK_DELTAS ==
  << <<-10, -20, -30, -40, -50, -60, -70>>,
     <<10, 20, 30, 40, 50, 60, 70>>,
     <<1, 2, 3, 4, 5, 6, 7>>,
     <<-1, -2, -3, -4, -5, -6, -7>> >>
BISHOP_DELTAS ==
  << <<-9, -18, -27, -36, -45, -54, -63>>,
     <<-11, -22, -33, -44, -55, -66, -77>>,
     <<11, 22, 33, 44, 55, 66, 77>>,
     <<9, 18, 27, 36, 45, 54, 63>> >>
QUEEN_DELTAS == ROOK_DELTAS \o BISHOP_DELTAS
WHITE_PAWN_DELTAS == [attacks |-> <<-9, -11>>, advances |-> <<-10, -20>>]
BLACK_PAWN_DELTAS == [attacks |-> <<9, 11>>, advances |-> <<10, 20>>]

----------------------------------------------------------------------------
\* Sequence helpers (Python list operations)

Range(s) == {s[k] : k \in 1..Len(s)}

RECURSIVE Flatten(_)
\* the concatenation of a list of lists (by halves, to keep the nesting low)
Flatten(ss) ==
  IF Len(ss) = 0 THEN <<>>
  ELSE IF Len(ss) = 1 THEN ss[1]
  ELSE LET h == Len(ss) \div 2 IN
    Flatten(SubSeq(ss, 1, h)) \o Flatten(SubSeq(ss, h + 1, Len(ss)))

RECURSIVE IndexOf(_, _, _)
\* first position k >= from with s[k] = x, 0 when there is none
IndexOf(s, x, from) ==
  IF from > Len(s) THEN 0
  ELSE IF s[from] = x THEN from ELSE IndexOf(s, x, from + 1)

\* list.remove(x) that removes nothing
ListRemove_KeepsAll(s, x) == s

\* list.remove(x): drops the first occurrence.  (The source raises
\* ValueError when x is absent; the list is then left as it is.)
ListRemove(s, x) ==
  LET k == IndexOf(s, x, 1) IN
    IF k = 0 THEN s
    ELSE [j \in 1..(Len(s) - 1) |-> IF j < k THEN s[j] ELSE s[j + 1]]

\* list.count(x)
ListCount(s, x) == Cardinality({k \in 1..Len(s) : s[k] = x})

----------------------------------------------------------------------------
\* 64-bit values as 16 hexadecimal digits

RECURSIVE BitXor(_, _, _)
BitXor(a, b, n) ==
  IF n = 0 THEN 0
  ELSE (IF (a % 2) = (b % 2) THEN 0 ELSE 1) + 2 * BitXor(a \div 2, b \div 2, n - 1)

NibXor == [a \in 0..15 |-> [b \in 0..15 |-> BitXor(a, b, 4)]]

\* a ^ b on 64-bit values
Xor(a, b) == [k \in 1..16 |-> NibXor[a[k]][b[k]]]

Zero64 == [k \in 1..16 |-> 0]

\* ZOBRIST_PIECE_KEYS[sq64][code], flattened: entry 12*sq64 + code + 1.
\* Each 64-bit key is written as its 16 hexadecimal digits, most significant first.
ZOBRIST_PIECE_KEYS ==
  <<
  <<6,2,9,15,6,15,11,14,13,8,2,12,0,7,12,13>>, <<14,3,14,7,0,6,8,2,12,2,0,9,4,12,10,12>>, <<0,10,5,13,2,15,3,4,6,11,10,10,9,4,5,5>>, <<15,7,2,8,11,4,15,10,4,2,4,8,5,14,3,10>>, <<7,12,6,5,12,1,14,5,8,2,14,2,14,6,6,2>>, <<14,11,1,1,6,7,11,3,6,7,10,9,12,3,7,8>>, <<13,4,7,1,3,13,6,0,12,8,10,7,0,6,3,9>>, <<15,7,12,1,11,13,8,7,4,13,10,5,14,7,0,9>>, <<5,11,10,9,1,15,10,15,7,10,0,2,4,2,0,4>>, <<14,4,4,3,13,15,7,8,9,5,5,8,8,6,7,15>>, <<3,7,14,11,13,12,13,9,14,8,7,10,1,6,1,3>>, <<2,3,10,7,7,1,1,10,8,1,3,3,2,8,7,6>>,
  <<2,3,12,6,6,1,2,15,4,8,2,6,8,6,7,3>>, <<1,8,4,6,13,4,2,4,12,1,7,12,6,2,7,9>>, <<12,12,10,5,10,5,10,1,9,14,4,13,6,14,3,12>>, <<15,12,11,13,0,4,12,3,4,0,2,1,2,14,15,7>>, <<8,8,5,6,1,7,1,2,14,8,14,5,2,1,6,10>>, <<11,4,8,6,2,11,2,1,15,11,9,7,13,4,3,5>>, <<9,10,1,6,4,1,0,6,12,15,6,10,6,5,9,14>>, <<2,5,9,15,4,3,2,9,14,6,15,4,5,9,0,11>>, <<1,9,4,8,8,13,14,12,4,15,6,5,13,4,13,9>>, <<1,2,14,0,12,8,11,2,11,10,13,6,4,0,15,11>>, <<13,9,11,8,10,7,1,4,14,6,1,10,4,4,1,12>>, <<5,4,8,7,12,14,1,14,10,15,1,9,9,2,2,10>>,
  <<8,15,4,15,15,3,1,14,7,8,13,14,5,8,5,7>>, <<5,10,9,2,1,1,8,7,1,9,12,7,8,13,15,4>>, <<5,0,15,2,4,4,5,5,6,15,2,5,14,2,10,2>>, <<10,3,15,2,12,9,11,15,9,12,6,3,1,6,11,9>>, <<3,4,5,8,10,7,4,8,14,9,11,11,1,7,11,12>>, <<8,13,7,2,3,1,0,4,15,7,7,3,8,3,12,1>>, <<7,1,5,4,5,10,1,3,7,10,1,13,5,0,0,6>>, <<8,5,7,7,6,14,9,10,13,13,8,4,15,3,9,14>>, <<0,15,15,1,8,14,0,2,4,2,10,15,9,15,12,3>>, <<14,11,2,0,8,3,14,6,12,14,1,6,4,13,11,10>>, <<14,10,7,14,9,13,4,9,8,12,7,7,8,14,10,6>>, <<1,7,14,0,10,10,3,12,0,3,9,8,3,12,10,8>>,
  <<13,7,1,0,3,7,13,1,11,8,3,14,9,0,14,12>>, <<11,5,13,3,2,11,1,6,6,6,1,9,4,12,11,1>>, <<12,8,15,8,14,3,13,0,13,3,2,9,0,10,4,12>>, <<10,0,1,1,6,11,14,5,10,11,0,12,1,6,8,1>>, <<9,12,10,5,4,9,9,13,0,0,4,10,14,5,4,5>>, <<13,3,15,11,15,4,7,10,7,14,5,11,1,14,7,15>>, <<5,5,4,8,5,8,2,2,13,14,1,11,3,7,2,10>>, <<11,10,15,3,8,9,7,10,3,14,7,0,15,1,6,10>>, <<11,4,2,1,14,10,14,11,5,3,4,0,9,7,12,10>>, <<1,0,1,15,11,12,12,12,13,14,13,7,3,3,14,8>>, <<14,10,12,1,12,1,4,15,3,0,14,9,12,5,12,12>>, <<3,8,12,1,9,6,2,14,9,1,4,8,6,2,4,15>>,
  <<12,13,10,8,0,5,6,12,3,13,1,5,14,14,15,7>>, <<2,4,7,10,8,3,3,3,15,7,11,0,11,7,13,2>>, <<8,11,0,1,6,3,12,1,12,13,9,13,2,11,7,13>>, <<1,7,5,9,14,13,12,3,7,2,10,14,2,2,4,4>>, <<15,14,4,3,12,4,9,14,1,4,9,8,1,8,13,1>>, <<14,0,0,5,11,8,6,0,5,1,14,15,1,9,2,2>>, <<15,15,7,11,1,1,8,14,8,2,0,8,6,5,13,6>>, <<7,13,4,1,14,6,0,2,14,14,12,14,3,2,8,11>>, <<4,13,2,11,9,13,14,11,1,11,14,11,3,7,1,1>>, <<4,10,8,4,14,11,0,3,8,13,1,15,13,9,11,7>>, <<1,15,15,3,9,8,4,9,11,4,14,1,3,5,7,13>>, <<5,5,2,15,2,3,3,10,8,12,2,5,1,6,6,10>>,
  <<14,12,1,8,8,14,15,11,13,0,8,0,14,6,6,14>>, <<3,4,0,5,0,9,5,12,8,10,5,0,0,6,12,1>>, <<12,12,10,7,4,1,4,7,15,6,11,14,1,15,7,2>>, <<8,12,1,7,4,5,10,7,9,10,6,10,5,15,9,2>>, <<4,9,10,3,14,8,0,14,9,6,6,14,1,2,7,7>>, <<1,7,7,5,3,3,6,13,7,1,14,10,12,13,0,5>>, <<12,12,4,5,7,8,2,1,9,8,10,6,4,1,6,13>>, <<5,1,2,9,15,11,7,12,6,2,8,8,14,1,10,5>>, <<3,13,15,10,11,12,0,8,9,3,5,13,13,13,7,2>>, <<2,15,1,2,0,5,5,4,4,10,5,3,0,8,12,12>>, <<13,2,4,11,10,12,14,4,3,0,7,11,15,3,2,6>>, <<0,8,7,0,14,1,5,12,2,15,12,13,8,1,11,5>>,
  <<15,11,3,6,7,5,11,8,9,12,13,14,11,3,14,6>>, <<4,2,9,3,0,11,3,3,10,8,1,10,13,4,7,7>>, <<1,1,10,15,9,2,3,13,7,9,15,13,14,15,7,12>>, <<10,13,12,0,13,10,7,10,1,6,15,14,11,10,10,0>>, <<2,1,5,6,6,3,10,11,12,1,15,2,5,4,11,8>>, <<2,6,4,8,14,14,3,8,14,0,7,4,0,5,14,11>>, <<0,9,14,4,6,9,14,6,14,12,6,2,11,2,12,8>>, <<1,4,8,11,2,7,5,8,13,7,10,11,7,9,2,8>>, <<11,3,0,6,13,1,10,8,14,5,14,14,10,12,7,6>>, <<13,4,5,0,15,14,4,10,14,12,4,15,2,1,7,11>>, <<10,14,15,9,12,0,0,11,8,10,6,4,12,1,11,9>>, <<13,6,7,14,5,5,15,13,6,4,2,11,15,10,4,2>>,
  <<8,6,4,10,7,10,5,0,11,4,8,13,7,3,15,1>>, <<8,5,9,4,0,9,2,7,4,6,8,15,15,5,3,13>>, <<3,12,4,9,13,7,6,15,12,15,12,6,14,6,2,5>>, <<3,7,1,7,6,14,8,4,13,9,7,7,14,9,9,3>>, <<10,13,15,2,0,8,0,6,14,5,2,1,4,6,0,6>>, <<13,3,4,4,7,4,9,0,9,6,15,13,3,5,13,0>>, <<6,11,5,15,5,2,4,1,15,3,2,3,12,10,7,4>>, <<4,6,7,4,3,7,4,1,9,4,6,6,14,4,7,2>>, <<7,14,1,14,10,9,12,5,7,3,5,8,1,10,8,1>>, <<10,4,2,5,7,9,9,10,10,9,0,5,13,7,5,0>>, <<11,3,4,1,15,10,12,13,15,15,0,10,12,0,15,1>>, <<15,11,8,2,8,6,0,13,14,10,11,12,10,8,13,0>>,
  <<5,11,7,12,7,0,9,10,12,11,1,7,5,10,5,10>>, <<5,3,0,6,15,3,15,5,1,5,1,6,6,5,7,0>>, <<1,13,8,7,8,15,9,15,9,12,13,15,5,10,8,6>>, <<9,6,4,10,8,7,0,12,7,12,8,7,9,11,7,4>>, <<5,5,13,4,4,9,3,6,10,1,5,1,5,6,0,7>>, <<3,0,11,12,10,11,0,14,13,8,5,7,0,1,0,2>>, <<0,4,2,6,4,6,5,14,3,14,3,7,9,5,2,13>>, <<4,5,6,2,11,14,7,15,11,11,4,2,14,0,11,2>>, <<11,4,9,0,11,6,0,8,1,13,15,12,8,3,5,2>>, <<5,15,3,15,5,6,3,8,3,8,7,0,1,10,1,4>>, <<2,11,10,4,11,1,8,0,12,11,6,9,12,10,3,8>>, <<6,13,1,6,14,14,1,8,5,5,2,1,1,6,13,13>>,
  <<0,15,14,11,13,8,4,5,13,0,13,15,10,14,4,3>>, <<12,8,7,10,7,4,6,3,1,9,12,1,6,10,0,13>>, <<13,10,15,6,6,12,5,15,2,5,7,7,11,15,15,10>>, <<3,8,0,1,8,11,4,7,11,2,9,10,8,11,0,6>>, <<13,1,2,14,12,11,12,4,0,11,9,4,7,5,11,1>>, <<10,2,5,11,5,9,15,13,9,2,14,8,14,2,6,9>>, <<14,15,11,15,12,1,9,14,14,8,15,6,12,15,3,2>>, <<9,10,2,7,13,8,5,8,8,8,12,1,3,2,10,13>>, <<1,2,15,1,7,5,15,15,10,14,3,11,1,6,14,12>>, <<1,15,13,11,8,11,3,2,0,6,13,5,9,9,14,8>>, <<3,0,4,2,14,3,2,5,10,2,8,15,5,10,11,0>>, <<13,4,8,0,8,6,5,15,9,11,3,8,15,14,8,0>>,
  <<1,14,10,4,5,12,13,6,9,3,7,1,10,7,1,15>>, <<1,7,6,14,10,1,11,1,6,4,2,6,4,12,13,5>>, <<13,5,7,6,13,4,1,5,5,14,12,1,7,13,11,14>>, <<1,13,11,5,3,3,3,4,15,11,0,3,2,3,10,1>>, <<9,11,0,2,5,2,4,4,0,9,5,0,15,13,1,3>>, <<3,1,13,0,11,6,6,4,0,5,8,9,15,8,7,7>>, <<15,8,7,15,4,3,15,13,15,6,0,6,2,5,4,1>>, <<11,7,13,6,4,6,7,11,2,15,5,10,5,2,2,10>>, <<7,10,10,15,0,14,8,9,1,15,11,7,9,7,15,10>>, <<11,10,2,6,13,8,5,1,3,5,14,8,5,7,9,10>>, <<0,15,10,3,4,2,6,6,12,12,15,13,11,10,9,11>>, <<10,13,14,9,11,2,11,4,14,15,13,13,3,5,15,8>>,
  <<8,11,5,3,0,3,1,13,0,5,13,5,1,4,3,3>>, <<9,14,13,15,10,3,13,10,6,12,15,5,5,11,1,5>>, <<13,5,15,13,11,7,6,10,1,9,15,11,14,11,1,13>>, <<1,1,14,11,12,13,4,9,4,2,8,10,1,12,2,2>>, <<1,2,6,12,11,12,8,15,3,8,8,8,4,4,7,9>>, <<4,13,1,2,5,14,7,15,10,5,9,12,14,12,9,8>>, <<6,15,10,2,3,1,14,9,5,9,10,12,13,13,9,8>>, <<0,15,10,0,7,10,3,15,2,14,2,9,5,0,6,5>>, <<7,7,9,5,14,9,8,6,8,0,14,14,5,2,6,14>>, <<9,8,11,3,3,12,6,14,0,10,1,4,11,9,0,10>>, <<11,3,0,6,13,7,0,0,1,9,13,5,15,9,7,0>>, <<6,4,2,10,10,13,4,8,15,12,15,12,15,10,8,1>>,
  <<4,2,9,8,1,7,12,5,3,3,0,8,15,11,2,14>>, <<14,7,8,6,10,11,3,7,5,11,12,10,4,7,11,14>>, <<7,8,6,0,1,6,0,2,11,11,4,10,0,6,12,11>>, <<14,6,15,13,6,8,14,8,13,6,9,12,9,1,12,2>>, <<9,1,13,12,5,9,14,15,14,11,2,1,10,3,15,6>>, <<11,2,9,12,4,6,7,13,2,11,5,15,6,9,3,2>>, <<3,4,1,2,15,12,1,2,10,12,3,2,2,12,1,2>>, <<12,4,7,0,15,0,14,7,15,7,6,15,11,15,11,8>>, <<12,9,14,4,13,10,11,2,0,14,13,12,6,13,2,11>>, <<2,8,8,0,5,12,5,13,10,13,1,11,8,15,6,0>>, <<2,9,7,5,13,2,7,9,13,8,6,13,11,15,1,1>>, <<8,7,8,11,9,15,6,11,5,7,10,1,12,11,7,1>>,
  <<1,14,0,1,10,9,3,4,4,0,2,13,0,11,10,15>>, <<14,11,14,2,1,3,6,8,9,8,12,7,5,2,0,5>>, <<10,10,6,5,2,4,10,11,7,1,3,11,7,14,0,5>>, <<0,3,6,1,5,2,4,12,2,12,12,0,15,8,5,9>>, <<10,14,6,8,6,9,0,10,7,8,11,12,7,1,7,5>>, <<14,6,6,12,13,3,6,14,6,8,14,15,8,15,5,15>>, <<13,15,15,3,3,3,4,11,9,1,11,1,5,15,5,13>>, <<14,10,14,2,0,2,5,14,8,2,3,3,9,14,2,3>>, <<10,6,2,0,8,1,4,3,4,15,11,10,14,12,12,0>>, <<6,3,7,14,0,14,13,12,5,11,6,14,4,10,14,7>>, <<10,8,5,9,8,9,0,12,13,6,7,0,15,6,6,8>>, <<2,7,4,6,0,15,2,2,4,0,3,13,1,15,8,3>>,
  <<11,0,13,9,12,2,10,10,8,15,8,3,7,14,15,7>>, <<7,5,3,12,7,12,9,9,0,3,2,15,0,6,12,10>>, <<1,4,3,14,2,14,0,4,11,13,13,7,13,1,9,11>>, <<11,13,3,0,2,9,1,10,5,5,15,14,10,0,8,14>>, <<8,11,5,8,8,5,12,10,0,11,11,2,12,3,15,0>>, <<2,2,8,4,11,7,10,4,4,7,14,7,15,5,9,3>>, <<12,3,1,13,5,10,9,7,3,13,7,9,2,15,10,1>>, <<7,11,5,9,0,5,1,11,15,4,0,0,4,8,13,7>>, <<9,12,3,1,13,9,11,2,5,10,2,11,7,4,5,11>>, <<10,12,6,4,2,11,4,12,4,9,11,2,5,13,14,13>>, <<9,7,1,12,7,0,2,13,5,11,15,4,9,12,0,4>>, <<14,4,5,6,6,9,7,12,15,2,6,8,6,11,10,10>>,
  <<13,10,9,0,15,5,3,4,10,2,3,13,4,12,9,13>>, <<2,1,14,1,5,0,9,4,9,14,15,14,14,4,6,4>>, <<4,15,6,15,10,9,8,5,11,7,3,2,13,4,6,15>>, <<11,15,9,12,12,5,4,5,6,3,5,5,1,8,15,7>>, <<13,4,3,2,15,8,13,11,6,10,1,7,4,12,1,12>>, <<1,4,10,10,4,5,1,12,10,6,9,12,15,11,8,5>>, <<9,8,3,6,3,1,8,9,0,0,6,3,14,4,2,15>>, <<11,2,13,6,5,0,10,15,3,1,3,11,3,2,11,7>>, <<2,8,15,10,15,13,0,4,5,5,9,11,5,9,7,5>>, <<3,9,1,12,15,0,4,6,3,13,4,10,5,13,5,1>>, <<7,2,11,8,15,15,3,9,10,3,2,12,9,11,6,15>>, <<11,5,13,9,7,14,15,7,6,0,14,15,1,4,7,1>>,
  <<10,12,7,12,8,8,0,3,14,0,1,11,11,15,5,0>>, <<13,15,14,1,11,3,0,7,9,1,7,2,5,15,0,10>>, <<0,8,1,3,5,13,5,8,6,10,1,6,8,9,10,13>>, <<13,15,2,6,15,5,1,7,6,6,15,10,15,9,8,9>>, <<9,1,4,5,13,14,0,5,11,3,10,11,1,11,2,12>>, <<12,5,10,13,15,6,8,1,6,11,1,0,14,5,3,10>>, <<11,5,8,1,6,11,7,4,10,9,8,5,10,11,6,1>>, <<2,10,6,9,10,12,12,7,0,11,15,9,12,0,14,15>>, <<1,0,5,10,13,10,6,11,7,2,0,2,9,9,14,3>>, <<11,3,9,6,9,0,5,7,4,2,5,12,11,2,0,0>>, <<7,2,4,4,15,5,3,6,2,8,5,14,2,5,11,4>>, <<14,2,8,11,12,9,15,15,8,7,0,15,0,8,4,12>>,
  <<14,8,7,5,4,12,13,3,7,12,11,13,7,0,2,5>>, <<9,10,9,14,4,3,1,0,8,15,11,8,3,11,10,11>>, <<0,0,0,4,8,8,4,12,12,1,6,7,7,3,3,15>>, <<0,9,15,6,0,4,8,15,14,2,4,5,10,4,6,0>>, <<5,3,7,1,0,15,5,7,7,14,9,12,15,8,4,15>>, <<13,6,7,5,14,11,15,7,4,15,14,3,0,12,9,10>>, <<0,12,12,3,6,13,8,12,7,7,8,6,3,15,14,5>>, <<13,2,9,13,12,5,13,15,12,15,1,13,10,1,1,0>>, <<15,9,6,3,10,7,14,15,14,0,0,1,1,1,14,5>>, <<6,10,4,6,7,2,1,10,12,15,15,10,6,12,13,13>>, <<8,12,6,14,9,0,3,7,3,0,2,0,13,10,5,12>>, <<15,6,8,9,10,4,10,5,15,15,13,10,0,3,3,6>>,
  <<15,10,8,3,10,13,10,4,10,2,1,2,1,10,12,5>>, <<13,6,6,3,0,4,9,13,1,5,5,14,1,8,11,1>>, <<2,1,6,9,13,15,8,2,11,9,11,13,14,14,2,13>>, <<0,3,12,5,4,12,7,1,15,12,10,0,5,5,3,6>>, <<15,3,1,5,8,12,0,12,6,6,13,13,7,7,9,4>>, <<6,10,14,0,4,13,5,2,10,13,11,3,2,8,12,11>>, <<0,0,13,14,5,9,15,5,5,0,15,0,15,12,2,11>>, <<0,3,10,8,9,8,7,9,3,6,10,9,8,13,7,4>>, <<12,1,3,7,8,11,14,5,11,7,10,2,8,14,0,10>>, <<15,10,15,1,5,0,1,11,0,0,9,10,8,1,5,11>>, <<10,12,15,14,11,11,4,11,13,2,9,14,8,6,9,3>>, <<9,12,11,0,1,7,12,1,8,7,4,1,10,14,9,1>>,
  <<3,0,12,1,15,11,6,10,1,9,0,8,6,5,1,5>>, <<9,11,11,13,7,5,0,13,1,14,7,0,7,12,5,2>>, <<3,2,13,1,15,8,1,11,10,6,3,6,4,2,5,12>>, <<4,13,6,11,2,3,4,15,13,15,10,7,12,6,14,13>>, <<11,0,4,4,2,8,4,10,4,7,10,12,15,2,15,6>>, <<2,14,10,6,0,11,9,9,15,10,7,15,15,8,11,15>>, <<7,9,12,1,4,7,12,7,1,9,10,5,7,1,1,11>>, <<14,12,3,10,10,3,1,4,13,10,9,11,11,0,1,7>>, <<10,0,10,12,15,4,12,9,6,5,8,13,14,1,7,14>>, <<0,5,9,7,10,10,11,6,1,4,13,3,0,13,11,12>>, <<14,9,15,4,1,12,12,0,4,6,5,3,10,5,6,0>>, <<12,12,12,1,4,13,5,1,7,3,15,6,6,0,13,8>>,
  <<1,13,10,3,11,7,14,2,12,10,13,6,14,5,1,4>>, <<4,1,10,9,3,15,9,0,13,12,8,2,1,5,2,7>>, <<10,7,5,0,2,10,8,1,2,2,2,7,13,9,6,13>>, <<13,1,3,8,13,1,5,0,8,5,5,7,7,1,6,10>>, <<10,5,1,10,13,4,15,3,10,6,9,9,11,10,14,0>>, <<1,13,7,7,12,14,4,0,5,8,13,8,7,7,7,6>>, <<2,7,8,9,6,3,8,9,13,15,3,2,7,7,15,13>>, <<13,9,14,10,13,9,2,6,4,7,4,5,13,13,9,14>>, <<0,10,13,4,0,4,1,5,0,4,12,1,4,9,8,2>>, <<3,4,10,11,1,8,15,13,0,10,6,8,14,8,8,14>>, <<4,2,7,9,11,1,4,13,10,14,5,5,12,13,15,15>>, <<5,0,9,1,0,11,13,12,8,14,15,0,6,6,13,4>>,
  <<5,13,14,12,12,0,6,10,15,2,4,13,15,13,13,8>>, <<9,1,4,5,9,1,10,14,15,0,3,13,8,6,6,10>>, <<13,9,7,4,12,1,4,6,14,8,14,12,0,1,11,3>>, <<13,8,10,11,0,11,3,0,0,10,12,0,12,15,0,13>>, <<15,6,1,1,6,4,12,14,11,15,12,7,4,12,10,9>>, <<9,11,8,11,7,1,10,1,11,3,8,10,0,5,15,11>>, <<7,14,9,6,9,12,15,3,10,7,12,5,12,11,8,7>>, <<10,4,14,6,9,5,12,9,11,6,5,13,1,2,2,6>>, <<7,5,6,11,0,7,1,5,14,7,1,8,0,3,2,2>>, <<6,15,7,9,0,9,5,9,10,3,14,0,4,11,3,11>>, <<13,15,1,4,12,6,1,2,5,15,5,8,13,5,11,5>>, <<2,13,10,4,4,13,10,1,8,9,11,5,11,3,6,8>>,
  <<6,0,2,5,15,0,10,14,3,5,3,5,4,5,7,9>>, <<4,10,8,1,4,13,5,3,9,6,4,13,13,11,7,7>>, <<2,3,7,1,14,10,2,12,0,2,4,7,1,4,5,15>>, <<4,5,7,8,11,10,11,3,2,6,10,9,7,4,6,5>>, <<5,6,6,7,2,0,1,7,5,5,5,10,4,0,8,5>>, <<5,14,0,0,14,10,6,13,12,10,2,4,11,14,4,13>>, <<1,7,15,13,3,7,3,6,11,7,14,15,9,4,1,12>>, <<12,7,8,7,13,13,15,11,5,6,9,7,15,1,7,12>>, <<0,9,2,1,5,15,4,15,9,14,13,11,9,5,15,2>>, <<4,5,0,5,15,4,15,6,0,10,8,12,4,6,12,7>>, <<2,6,4,0,2,1,1,14,2,9,15,2,12,3,12,7>>, <<9,5,5,13,0,14,7,7,15,11,5,14,11,8,6,6>>,
  <<5,12,6,4,6,0,3,6,4,10,1,14,11,1,11,7>>, <<15,13,4,2,15,6,9,7,6,5,1,1,1,6,5,6>>, <<2,1,3,0,2,6,0,12,8,12,6,9,7,7,8,15>>, <<1,13,6,9,13,9,15,12,4,11,1,12,11,8,11,13>>, <<11,11,0,3,7,8,14,11,7,10,6,2,7,2,2,14>>, <<14,15,0,10,8,1,14,13,3,13,5,13,6,0,11,12>>, <<4,14,13,1,3,5,5,3,0,12,5,10,8,7,6,15>>, <<13,11,6,6,11,15,13,10,2,13,15,9,6,7,4,7>>, <<11,10,8,9,8,2,13,13,8,5,14,6,9,14,10,9>>, <<4,13,7,11,13,3,0,7,1,2,2,4,1,1,14,6>>, <<13,5,14,7,3,14,3,15,6,7,3,6,1,7,13,9>>, <<4,12,9,10,0,10,14,1,5,4,1,9,14,14,15,12>>,
  <<1,11,13,0,9,4,4,8,6,10,2,11,3,2,0,0>>, <<8,15,9,2,8,13,12,5,1,9,7,2,4,12,14,3>>, <<7,11,2,14,1,11,8,2,14,8,9,13,12,8,1,5>>, <<5,6,4,10,14,9,0,9,7,9,5,8,5,14,6,9>>, <<12,12,4,1,7,14,7,12,13,7,4,1,13,6,0,9>>, <<12,15,15,4,12,5,6,11,15,9,14,10,2,12,6,4>>, <<1,15,13,3,12,0,1,7,5,7,15,9,8,13,1,14>>, <<1,13,11,2,11,4,5,2,7,10,10,5,6,10,1,8>>, <<7,15,6,11,8,7,9,3,11,3,1,8,10,13,4,12>>, <<0,9,10,14,13,11,13,0,6,13,3,1,6,11,4,10>>, <<5,5,12,7,14,13,9,13,4,13,4,9,8,5,13,12>>, <<10,15,14,6,7,9,0,10,11,12,1,8,10,4,0,11>>,
  <<2,7,13,9,9,10,2,3,14,4,15,7,6,2,5,14>>, <<2,10,10,3,6,12,15,7,14,11,7,0,11,10,6,5>>, <<9,0,8,2,3,14,13,10,10,0,7,2,2,10,10,0>>, <<12,14,5,13,12,8,0,7,6,0,2,5,7,1,9,9>>, <<15,13,13,2,14,13,7,10,15,9,7,12,12,12,5,7>>, <<1,6,4,0,8,1,6,9,10,3,8,13,8,10,15,12>>, <<12,14,12,10,2,14,14,3,1,0,13,10,8,10,9,5>>, <<3,2,11,2,12,4,9,2,1,5,10,12,14,7,10,1>>, <<3,8,9,7,4,13,15,5,11,15,15,7,7,3,12,14>>, <<6,2,8,3,0,8,6,9,0,15,10,7,14,14,0,5>>, <<1,9,1,11,8,10,13,15,0,2,0,2,8,6,1,12>>, <<8,14,7,5,1,14,11,7,6,4,13,0,9,9,1,3>>,
  <<4,10,3,1,11,2,4,3,8,4,13,13,6,13,10,6>>, <<14,11,8,15,2,0,5,6,7,2,13,3,12,12,5,13>>, <<12,9,12,13,4,10,15,9,7,13,1,6,1,15,2,9>>, <<11,6,14,3,5,5,15,6,9,5,11,11,4,4,0,13>>, <<3,7,9,13,14,13,10,1,10,13,14,6,12,5,14,9>>, <<1,5,6,10,15,4,5,8,6,12,4,12,3,9,3,5>>, <<3,8,5,10,15,4,6,3,5,14,4,10,15,8,6,2>>, <<15,15,12,5,7,3,13,5,15,13,0,11,10,7,0,14>>, <<9,5,13,1,8,0,5,1,4,2,12,11,6,13,1,13>>, <<2,10,10,5,0,15,4,14,12,6,15,0,0,9,3,3>>, <<3,1,2,3,4,14,15,14,6,14,6,4,8,0,4,3>>, <<1,13,7,1,7,3,14,5,5,11,12,7,15,13,14,11>>,
  <<13,2,6,13,5,3,9,6,1,0,5,8,15,14,8,12>>, <<13,10,5,4,15,2,6,7,13,13,1,3,8,2,6,6>>, <<0,7,1,2,0,9,1,1,11,3,11,6,8,11,5,7>>, <<8,6,9,11,13,11,13,2,14,7,2,11,11,5,11,7>>, <<12,0,9,15,12,13,8,15,7,3,9,12,13,4,8,8>>, <<3,3,10,1,13,1,12,2,10,13,4,10,11,1,5,5>>, <<7,15,4,1,1,15,14,13,1,14,7,0,14,7,9,9>>, <<4,1,10,8,10,6,14,1,6,5,14,0,4,9,9,3>>, <<10,4,1,8,6,5,11,15,3,5,0,13,2,7,8,13>>, <<15,15,3,14,0,11,10,1,0,10,12,7,2,8,11,4>>, <<12,12,2,4,9,5,5,8,15,2,10,13,9,8,5,15>>, <<9,15,9,8,2,1,8,8,3,7,4,4,13,10,6,4>>,
  <<1,10,12,9,0,2,14,14,2,5,7,7,7,12,15,0>>, <<7,5,5,10,3,10,12,1,3,2,10,14,2,10,2,0>>, <<5,12,9,4,9,3,8,1,6,0,12,6,11,3,14,13>>, <<13,3,11,5,6,4,11,0,8,11,14,0,4,12,3,14>>, <<1,10,13,0,10,6,15,2,2,6,11,13,13,9,7,4>>, <<9,8,10,3,3,7,3,6,15,13,1,10,12,7,12,14>>, <<7,12,14,7,1,11,4,8,15,11,10,5,2,14,5,9>>, <<9,0,5,12,0,5,3,11,2,5,15,13,10,12,11,14>>, <<10,3,6,11,12,11,0,1,6,7,14,9,8,3,6,3>>, <<6,12,5,9,6,2,1,6,10,14,0,15,13,11,12,8>>, <<8,5,6,15,3,13,9,5,14,0,10,14,1,10,1,11>>, <<10,13,14,7,12,14,15,3,7,14,13,2,14,12,2,15>>,
  <<14,3,4,5,10,12,7,2,14,10,12,3,9,2,0,4>>, <<13,5,6,2,7,3,8,6,5,2,8,12,12,2,4,1>>, <<15,15,8,8,14,12,8,2,7,15,9,9,13,2,7,3>>, <<10,2,9,3,9,11,3,11,7,15,10,7,4,13,8,10>>, <<13,15,14,12,4,6,2,3,10,11,8,9,9,6,0,5>>, <<8,10,15,5,8,9,0,3,3,3,11,5,11,3,12,14>>, <<14,14,6,10,8,14,2,15,9,12,1,9,14,13,3,4>>, <<0,2,7,12,0,1,3,15,3,8,0,1,8,3,9,9>>, <<11,4,10,1,12,10,7,9,5,7,1,8,10,13,10,2>>, <<11,15,3,13,15,0,11,11,15,6,6,10,12,1,6,8>>, <<5,1,7,9,7,3,5,0,14,6,2,5,6,4,0,3>>, <<5,2,6,3,1,13,11,9,13,1,7,0,3,4,12,14>>,
  <<8,6,6,13,7,0,0,2,0,9,1,4,7,2,10,13>>, <<13,15,13,14,2,2,8,1,2,5,15,11,5,15,3,13>>, <<9,10,4,3,1,15,7,10,4,1,12,3,0,3,5,9>>, <<2,7,14,9,6,9,14,2,12,8,11,15,2,3,15,11>>, <<6,1,0,6,7,10,8,12,13,7,10,3,2,8,3,12>>, <<4,11,5,12,10,4,3,6,9,5,3,12,1,7,8,14>>, <<11,4,13,4,13,15,12,12,11,7,13,7,7,9,12,12>>, <<7,8,6,14,3,0,14,15,12,14,9,11,2,14,7,0>>, <<12,12,12,9,3,15,15,7,1,0,15,12,14,9,7,13>>, <<8,4,3,11,2,10,7,13,1,5,10,11,2,12,2,1>>, <<14,10,5,15,2,4,11,6,13,14,6,15,14,12,4,11>>, <<1,0,15,12,9,14,14,14,0,10,1,7,2,7,15,7>>,
  <<2,1,6,8,1,0,8,1,3,9,9,15,8,10,8,15>>, <<4,12,14,10,2,13,15,0,0,10,6,6,13,12,4,14>>, <<12,2,4,7,2,15,13,6,0,3,14,9,11,10,0,2>>, <<7,2,13,6,11,12,2,0,13,8,0,13,6,10,1,12>>, <<13,12,10,5,11,3,5,3,5,4,10,1,13,5,0,5>>, <<12,12,15,7,1,9,10,11,2,9,2,2,15,11,13,8>>, <<13,14,6,2,13,4,3,15,2,6,1,9,0,8,11,9>>, <<7,5,15,2,11,12,2,0,10,7,15,5,1,9,5,12>>, <<5,15,0,14,15,3,2,0,15,7,15,6,0,14,7,15>>, <<6,1,13,9,15,14,3,9,8,1,4,7,10,8,15,4>>, <<8,7,10,1,7,9,8,15,14,6,10,13,13,13,9,14>>, <<0,8,9,11,3,0,10,0,8,0,9,15,2,9,2,3>>,
  <<1,7,3,4,10,2,6,12,9,2,14,9,4,14,8,9>>, <<12,11,4,13,1,8,13,6,10,13,11,6,13,10,3,5>>, <<8,4,9,11,8,10,4,4,12,14,1,11,11,0,2,10>>, <<9,9,10,2,14,12,11,1,12,2,0,2,3,8,7,11>>, <<1,3,8,12,3,4,6,0,15,13,9,3,8,10,13,12>>, <<6,13,2,6,5,13,13,8,11,15,3,9,1,15,11,11>>, <<12,1,2,14,10,9,11,8,14,7,14,1,3,14,13,8>>, <<4,10,2,7,6,13,13,10,3,4,12,3,4,9,4,10>>, <<14,6,11,1,0,6,14,2,8,9,1,1,0,10,15,0>>, <<6,10,15,7,9,10,13,2,9,9,3,14,12,8,12,6>>, <<15,8,15,8,15,0,7,1,13,3,6,0,13,10,6,9>>, <<13,8,7,2,2,9,8,12,7,11,7,2,5,9,0,11>>,
  <<15,8,14,4,5,0,8,6,12,10,8,1,9,12,6,15>>, <<9,11,8,0,8,6,13,10,6,3,7,9,4,0,3,5>>, <<3,11,12,11,5,0,11,3,9,6,1,13,8,13,12,15>>, <<13,13,6,2,0,2,2,2,13,9,14,15,14,2,8,11>>, <<0,5,3,14,4,11,4,2,12,12,4,13,10,0,2,1>>, <<14,2,10,0,1,3,3,5,10,8,3,0,2,3,10,11>>, <<11,13,10,1,7,13,10,2,0,0,0,15,12,6,3,13>>, <<4,13,6,12,13,7,8,2,2,14,9,5,8,3,14,10>>, <<9,1,15,12,15,14,8,8,8,1,12,1,6,14,9,8>>, <<5,5,2,10,14,5,12,10,4,1,2,4,4,0,5,11>>, <<7,14,5,6,10,12,3,13,1,0,12,12,8,7,1,1>>, <<4,3,1,2,14,12,14,2,13,12,2,1,5,1,14,1>>,
  <<13,3,3,4,8,8,6,15,15,1,6,4,15,9,13,8>>, <<12,5,12,1,4,2,6,2,4,13,8,4,9,14,12,5>>, <<6,2,5,8,4,10,11,3,6,8,7,7,7,11,10,11>>, <<6,2,3,8,13,0,10,0,12,15,5,14,9,14,10,3>>, <<2,9,14,14,7,15,3,13,0,15,15,0,3,0,11,8>>, <<14,15,7,14,8,5,14,12,10,4,1,7,9,5,6,15>>, <<3,13,2,11,15,0,4,2,2,0,9,8,1,8,13,1>>, <<11,10,11,13,4,7,4,5,4,9,7,14,9,15,1,10>>, <<5,5,8,2,10,3,11,13,13,4,7,6,15,14,3,8>>, <<15,1,1,13,13,15,15,7,0,14,3,7,0,5,2,6>>, <<7,11,3,8,7,8,5,11,0,9,3,2,15,5,11,6>>, <<2,4,1,2,5,7,9,13,6,10,15,9,4,4,14,0>>,
  <<14,3,13,4,8,4,0,8,7,13,14,8,10,2,3,4>>, <<9,10,1,10,7,13,6,15,13,13,0,2,14,1,0,0>>, <<1,4,14,5,0,6,4,12,11,7,9,9,10,14,8,14>>, <<11,2,13,13,12,4,8,1,10,12,6,13,5,13,15,8>>, <<12,15,6,15,1,1,1,12,2,6,12,0,6,14,6,7>>, <<5,10,4,15,4,1,4,5,15,12,9,8,12,2,7,9>>, <<0,9,0,1,8,10,14,14,6,9,4,0,7,11,14,7>>, <<7,7,5,14,0,14,12,3,9,12,9,13,0,3,15,3>>, <<7,5,7,9,5,0,1,10,6,2,15,13,10,8,5,4>>, <<1,9,15,10,10,0,6,14,0,12,0,10,5,9,6,7>>, <<12,7,3,4,11,11,0,5,7,8,8,12,3,1,15,6>>, <<0,5,2,13,10,10,13,3,2,6,12,0,0,9,8,4>>,
  <<9,9,2,10,3,4,10,1,0,8,4,15,10,8,1,9>>, <<2,1,15,8,12,1,5,6,9,14,0,13,15,4,5,11>>, <<5,2,14,11,13,10,12,5,10,1,4,5,7,8,9,9>>, <<11,3,3,8,6,12,3,14,1,10,15,4,7,8,7,15>>, <<10,6,2,4,5,11,5,9,8,12,9,4,10,15,9,8>>, <<3,1,14,9,12,10,8,0,5,8,11,15,3,11,9,14>>, <<12,8,8,14,0,3,11,6,6,2,2,7,6,12,11,12>>, <<12,7,0,7,10,14,15,9,12,6,12,3,7,4,4,12>>, <<1,12,6,10,4,11,5,14,7,13,8,5,9,7,2,5>>, <<0,15,6,6,11,3,2,13,14,1,9,11,5,8,3,7>>, <<11,3,6,8,12,5,5,3,9,12,3,0,12,14,10,10>>, <<9,13,4,4,12,9,3,14,7,7,9,9,10,8,14,2>>,
  <<14,15,1,5,1,6,7,3,10,1,13,15,3,13,10,7>>, <<10,6,8,5,5,8,5,7,5,6,7,14,5,8,6,2>>, <<15,8,3,0,3,2,4,9,1,15,13,3,10,15,0,7>>, <<11,6,10,15,9,8,11,2,10,14,11,10,4,2,13,0>>, <<4,11,13,15,15,10,7,13,9,15,3,13,13,8,9,4>>, <<13,9,6,0,10,15,8,5,12,9,13,15,7,14,4,4>>, <<15,5,5,14,3,10,10,2,2,0,8,10,3,9,3,14>>, <<6,3,3,12,11,15,7,9,14,9,6,10,10,1,10,15>>, <<4,11,3,6,11,5,4,5,12,12,10,1,10,0,3,4>>, <<11,14,14,11,11,4,14,10,14,10,11,9,2,2,1,11>>, <<15,5,2,1,12,10,9,15,13,15,5,14,6,15,7,8>>, <<15,11,11,15,15,9,14,0,10,14,5,6,7,0,2,10>>,
  <<1,15,1,14,0,14,14,9,12,15,6,12,9,9,9,2>>, <<13,12,4,5,4,8,8,13,8,4,13,13,10,9,11,9>>, <<15,14,14,15,7,1,12,11,12,9,1,5,13,1,1,3>>, <<0,9,12,6,7,4,1,7,3,0,6,10,10,8,7,1>>, <<6,4,5,11,13,7,7,6,12,8,3,8,10,1,4,5>>, <<5,15,1,15,15,9,7,12,7,1,12,15,15,8,1,4>>, <<3,0,12,3,2,3,2,3,12,1,11,1,9,9,12,4>>, <<5,11,4,7,1,12,4,3,7,4,9,9,11,2,8,12>>, <<10,1,12,11,10,1,8,2,12,10,2,0,8,5,4,13>>, <<15,4,13,13,0,5,13,5,1,3,4,9,7,4,7,10>>, <<14,6,14,4,11,8,13,15,0,11,6,13,9,6,1,1>>, <<0,10,3,12,2,12,6,15,14,15,2,13,9,10,3,8>>,
  <<4,1,6,0,15,15,9,2,7,12,7,5,5,0,15,2>>, <<0,6,13,2,14,13,7,12,14,6,10,12,9,13,8,10>>, <<8,5,2,2,13,12,4,14,15,1,13,13,5,0,11,15>>, <<9,1,11,10,12,15,8,0,10,10,10,0,7,9,9,6>>, <<14,0,3,9,7,14,6,7,9,2,6,1,4,6,13,14>>, <<3,10,12,10,10,15,8,2,3,7,4,10,6,12,12,9>>, <<12,6,11,14,6,4,3,2,1,7,14,14,0,14,11,0>>, <<14,2,7,10,12,8,14,9,13,1,12,3,13,1,11,12>>, <<10,0,9,15,1,10,14,13,14,3,8,6,9,0,14,7>>, <<8,0,9,14,2,1,0,9,12,7,8,6,7,10,3,8>>, <<8,6,1,1,15,5,8,3,11,2,13,1,0,14,3,13>>, <<8,1,13,1,11,15,0,6,6,11,8,12,6,6,15,2>>,
  <<15,2,0,11,5,7,5,13,4,14,2,8,14,6,7,4>>, <<2,5,4,11,15,7,10,14,1,13,0,10,11,9,9,4>>, <<14,4,4,15,12,3,10,9,6,13,0,12,6,2,12,3>>, <<6,12,0,11,14,5,5,12,9,0,14,6,3,9,14,1>>, <<1,5,8,3,1,15,14,14,14,12,4,1,14,6,15,6>>, <<1,10,13,1,13,10,10,10,14,15,8,13,9,15,15,0>>, <<1,0,1,11,11,5,15,10,6,10,6,7,7,6,2,3>>, <<6,10,4,8,0,5,4,2,1,9,6,5,14,4,3,5>>, <<2,7,15,9,14,7,2,8,12,6,1,8,15,12,1,14>>, <<15,4,5,13,10,4,0,6,11,11,15,9,11,11,0,1>>, <<12,10,9,5,7,1,14,4,0,7,13,12,0,2,11,1>>, <<6,14,5,11,10,12,2,0,7,2,5,12,2,6,7,5>>,
  <<6,10,12,1,12,10,7,5,10,15,11,9,1,8,12,8>>, <<7,15,2,2,12,13,1,2,0,7,11,6,14,0,8,14>>, <<13,13,3,2,14,2,3,1,14,11,5,6,1,6,9,9>>, <<5,3,1,2,5,15,15,13,15,6,5,5,8,6,0,11>>, <<4,0,10,9,7,8,11,15,11,8,15,8,9,0,3,11>>, <<5,10,3,13,10,3,6,7,1,4,1,11,1,10,1,11>>, <<1,15,1,2,10,0,14,9,1,2,0,1,1,12,10,10>>, <<11,1,1,8,2,13,2,3,5,11,15,8,0,6,7,6>>, <<5,8,6,15,1,7,2,1,0,7,8,5,4,8,13,7>>, <<2,13,8,11,5,11,4,1,5,9,0,14,8,3,13,10>>, <<13,4,8,12,9,3,15,3,0,2,8,13,0,4,2,11>>, <<3,11,0,1,9,15,12,11,15,9,6,13,4,4,0,3>>,
  <<5,13,10,5,3,11,3,8,13,1,10,10,6,12,5,14>>, <<9,8,11,10,0,15,0,14,1,2,0,13,7,1,2,6>>, <<2,4,10,14,11,10,7,9,14,4,11,8,2,9,8,7>>, <<0,0,13,3,13,1,10,15,3,5,3,14,0,12,8,6>>, <<10,8,11,5,6,15,8,5,3,4,6,13,2,11,7,14>>, <<11,11,6,11,0,0,9,5,10,12,7,11,7,10,11,2>>, <<14,6,10,1,10,4,0,11,15,0,3,1,15,4,11,9>>, <<11,15,7,11,6,8,10,14,1,15,8,9,4,1,11,6>>, <<4,11,1,3,4,7,15,6,0,1,13,6,13,9,0,3>>, <<11,0,8,0,14,0,0,3,5,14,7,15,5,0,3,12>>, <<14,14,12,11,3,2,5,11,0,6,4,15,7,6,8,13>>, <<3,11,9,12,14,10,9,5,9,10,13,7,5,5,8,15>>,
  <<2,4,5,2,11,12,3,9,13,11,15,2,14,14,13,1>>, <<7,4,3,12,7,14,9,13,2,15,13,14,11,0,3,5>>, <<7,10,0,8,9,12,10,8,1,12,12,5,10,8,10,0>>, <<11,5,1,13,7,0,13,8,5,8,2,13,13,9,7,2>>, <<4,2,1,10,10,1,5,14,15,5,8,12,4,3,12,14>>, <<0,7,2,6,13,4,4,10,2,1,5,2,0,3,12,7>>, <<3,5,4,7,5,12,5,14,15,7,6,13,12,14,6,14>>, <<5,5,12,3,6,12,3,13,5,12,11,11,12,0,8,0>>, <<15,5,15,14,0,2,1,3,7,9,2,14,12,13,7,5>>, <<4,11,13,13,5,15,9,9,4,10,14,9,14,14,1,1>>, <<14,0,13,15,7,15,7,4,14,15,14,7,8,11,6,0>>, <<8,13,9,14,12,15,11,9,15,5,4,9,2,14,2,2>>,
  <<5,3,11,5,3,11,9,2,10,2,12,11,5,15,3,8>>, <<9,7,13,0,1,14,7,0,2,15,1,13,9,11,14,15>>, <<1,4,10,15,14,6,4,6,15,14,3,2,1,6,11,13>>, <<8,8,8,1,9,15,4,2,1,10,4,2,11,6,2,9>>, <<4,14,12,9,8,5,15,15,9,4,11,2,8,11,9,13>>, <<6,0,6,8,2,1,13,6,2,8,0,10,0,7,14,14>>, <<2,5,9,12,15,15,8,1,14,5,12,14,0,12,10,6>>, <<2,0,0,15,7,7,5,3,15,2,1,7,15,10,10,12>>, <<3,9,0,10,9,0,1,6,12,13,14,12,8,5,13,10>>, <<8,2,2,2,1,3,4,5,5,0,13,14,4,2,9,2>>, <<3,12,9,5,9,0,13,3,3,14,2,10,10,13,3,14>>, <<2,15,1,6,15,11,5,0,12,1,3,14,6,6,10,15>>,
  <<5,15,5,9,10,10,2,12,4,10,8,2,14,0,6,10>>, <<10,9,12,7,2,14,7,11,6,11,7,7,0,13,15,1>>, <<13,12,6,8,13,4,15,13,0,11,13,7,6,9,6,15>>, <<9,9,14,8,12,8,2,8,2,1,13,10,1,3,2,12>>, <<6,4,13,0,2,7,5,9,0,5,4,2,11,13,7,5>>, <<11,3,12,1,6,1,12,3,1,3,15,2,10,3,7,12>>, <<2,1,12,12,1,4,11,3,1,2,11,13,15,7,5,15>>, <<4,12,10,4,9,10,10,15,6,11,9,4,4,14,0,9>>, <<6,10,11,0,1,5,6,3,8,12,15,15,11,11,11,1>>, <<14,13,2,8,5,0,8,13,11,13,10,10,3,11,15,10>>, <<9,7,5,0,12,10,7,14,2,4,6,12,11,0,9,12>>, <<4,12,4,11,9,1,15,14,6,12,1,4,8,15,12,6>>,
  <<5,10,12,4,11,6,12,7,10,3,1,0,3,4,13,13>>, <<3,15,8,0,12,3,1,15,1,5,10,5,7,1,2,12>>, <<10,1,15,13,12,13,15,1,7,1,13,15,2,4,13,9>>, <<10,3,1,5,5,9,4,0,5,14,8,7,9,0,5,10>>, <<8,7,7,10,2,1,3,3,15,2,14,13,3,3,14,1>>, <<6,0,5,13,13,4,13,6,0,14,12,15,11,9,5,11>>, <<0,2,2,8,4,15,13,9,6,8,9,11,11,10,6,5>>, <<15,6,4,2,12,8,15,3,6,10,12,15,4,9,14,11>>, <<14,6,11,9,2,0,13,10,11,10,6,10,0,9,8,15>>, <<7,0,15,8,13,13,9,9,5,2,1,7,7,14,11,7>>, <<5,15,2,0,15,4,0,6,3,4,3,8,11,4,14,4>>, <<15,3,12,12,9,13,8,10,4,11,1,6,7,8,14,4>>,
  <<1,7,4,15,7,10,5,4,7,8,8,12,1,6,1,14>>, <<2,15,7,10,3,0,4,15,15,3,4,4,12,9,1,1>>, <<1,11,12,14,3,5,13,8,12,11,14,8,8,10,3,15>>, <<1,12,11,6,6,15,6,7,4,6,14,7,8,5,10,13>>, <<9,11,0,5,0,13,11,2,8,14,14,4,15,13,0,2>>, <<2,7,6,4,9,10,6,2,11,0,2,13,14,5,2,12>>, <<11,3,13,13,7,7,14,1,12,11,11,0,2,15,14,9>>, <<14,13,10,2,15,12,4,12,7,2,3,7,13,4,2,0>>, <<2,15,7,5,1,11,13,14,6,6,1,6,3,14,5,11>>, <<6,11,15,4,13,0,4,7,12,4,8,4,1,10,8,13>>, <<2,12,11,11,9,3,12,2,6,14,8,4,15,8,14,10>>, <<15,5,10,3,14,8,9,3,3,15,7,10,2,7,4,8>>,
  <<5,7,2,3,10,9,5,9,7,4,1,5,1,10,12,12>>, <<8,5,15,10,2,13,5,12,14,15,14,6,1,7,1,11>>, <<5,10,15,9,5,12,7,8,2,4,7,15,4,13,9,7>>, <<10,1,10,11,1,7,12,0,7,6,6,2,2,9,12,12>>, <<1,6,2,4,13,3,1,8,10,3,2,6,5,2,14,8>>, <<12,1,4,9,15,10,8,14,7,11,11,8,12,2,15,1>>, <<4,11,7,3,5,0,13,1,3,4,2,1,11,14,10,15>>, <<13,4,8,6,4,4,8,2,0,0,7,8,12,11,1,2>>, <<7,2,15,7,7,4,11,1,11,2,15,1,1,14,15,9>>, <<7,6,4,6,5,7,12,10,9,14,6,5,7,3,6,12>>, <<3,7,15,14,15,6,11,5,0,1,15,13,10,6,9,8>>, <<1,13,4,13,1,1,8,0,4,12,6,14,6,15,11,11>>,
  <<15,10,9,2,12,13,2,8,12,4,12,5,3,6,15,11>>, <<4,13,1,8,12,1,0,3,10,1,0,0,14,13,1,4>>, <<9,11,15,1,15,1,13,1,8,11,9,2,12,2,4,7>>, <<6,12,9,8,15,7,3,13,2,7,15,14,1,11,4,11>>, <<12,0,5,8,10,3,3,2,11,4,12,15,10,15,10,8>>, <<1,7,11,1,8,14,6,14,7,8,10,15,15,5,8,14>>, <<7,15,6,7,14,14,1,10,10,13,9,13,1,15,4,2>>, <<15,5,15,14,11,10,5,14,12,2,9,5,3,15,5,1>>, <<8,11,3,2,9,9,2,10,3,11,7,12,1,15,9,10>>, <<6,7,12,2,1,3,5,5,12,3,1,2,1,10,15,6>>, <<10,1,12,15,0,13,1,13,4,7,11,3,13,15,4,1>>, <<0,5,8,8,13,9,1,13,15,11,14,8,6,10,8,14>>,
  <<4,5,2,3,13,11,11,11,1,14,14,14,13,2,1,9>>, <<10,11,2,2,1,2,12,9,14,2,3,11,5,8,0,14>>, <<0,0,1,0,9,8,2,4,0,10,6,1,4,11,14,3>>, <<6,5,15,15,6,10,13,12,4,1,10,14,15,3,15,7>>, <<14,3,15,11,13,11,13,10,8,6,10,14,9,13,5,12>>, <<11,5,12,0,3,15,6,15,9,4,14,4,12,12,4,4>>, <<7,1,13,0,4,11,0,15,6,5,6,15,10,7,14,6>>, <<11,15,1,13,15,6,8,7,1,10,1,14,12,0,4,2>>, <<5,10,9,4,1,4,11,8,4,0,10,10,14,12,7,10>>, <<13,15,0,13,6,3,0,1,4,8,8,12,10,12,4,14>>, <<10,12,2,12,1,0,13,0,12,1,5,6,4,8,15,15>>, <<3,2,2,15,1,4,9,9,14,8,10,5,6,15,3,1>>,
  <<1,5,13,3,8,12,10,9,9,8,6,12,12,8,13,5>>, <<1,2,0,9,6,1,14,10,0,9,1,3,5,0,8,7>>, <<4,3,3,2,5,5,9,13,12,10,13,0,0,2,7,3>>, <<8,8,9,12,8,10,14,2,4,14,3,12,0,15,2,13>>, <<1,14,4,1,5,12,4,14,5,7,0,3,0,14,13,14>>, <<13,12,0,5,2,0,10,4,8,7,11,10,3,11,9,0>>, <<14,4,0,4,13,8,0,8,3,15,12,1,8,12,0,0>>, <<12,3,1,2,7,7,15,13,14,11,8,3,10,15,1,6>>, <<1,1,6,14,8,10,6,4,2,9,13,14,11,9,8,4>>, <<13,12,6,6,10,2,7,11,6,10,3,2,5,3,3,3>>, <<4,8,6,2,2,10,6,7,4,10,2,9,4,0,6,7>>, <<2,2,6,9,6,2,2,7,8,5,1,3,13,9,1,14>>,
  <<8,5,14,7,4,2,5,0,9,2,15,0,7,8,11,8>>, <<3,5,13,4,12,13,3,5,10,0,8,12,3,10,0,0>>, <<1,10,15,5,5,12,2,6,8,8,0,8,3,14,11,12>>, <<15,4,10,5,12,12,3,6,6,9,2,10,7,11,12,14>>, <<8,11,2,7,9,12,2,9,10,2,7,4,12,0,13,7>>, <<11,13,12,14,2,9,14,15,6,7,4,6,1,0,14,11>>, <<14,7,6,15,8,10,7,6,12,7,4,15,1,1,12,13>>, <<4,7,5,3,4,9,5,2,12,9,12,5,15,14,15,1>>, <<7,1,3,14,12,14,11,1,4,10,13,1,2,11,4,12>>, <<9,1,7,7,11,6,13,4,5,15,2,14,9,1,6,7>>, <<2,3,4,7,11,2,4,15,10,0,15,9,12,0,7,4>>, <<1,15,9,0,7,8,13,5,2,8,3,5,11,12,13,11>>,
  <<1,14,13,10,4,2,0,9,11,2,7,0,10,15,5,5>>, <<6,6,11,6,2,0,8,7,6,1,10,5,3,15,13,13>>, <<7,7,12,11,1,10,2,7,9,7,4,15,13,14,13,12>>, <<8,15,4,2,12,14,11,14,2,3,11,8,7,0,15,3>>, <<4,12,8,8,11,9,13,8,10,11,1,2,15,11,5,3>>, <<10,1,13,2,0,14,11,12,5,10,10,3,8,9,2,10>>, <<11,14,0,10,5,10,5,6,7,9,0,0,9,12,6,1>>, <<3,7,12,15,8,0,2,5,6,10,4,4,7,10,9,0>>, <<7,13,2,5,12,14,15,11,7,10,0,10,0,2,11,10>>, <<8,0,6,6,11,4,9,11,11,1,13,7,9,2,10,0>>, <<7,14,2,2,14,1,11,7,5,1,7,8,3,0,3,2>>, <<15,5,5,11,2,14,5,12,10,6,14,13,0,10,12,0>>,
  <<7,1,10,8,12,9,12,6,0,15,6,10,11,7,5,11>>, <<2,4,8,15,4,10,2,5,4,12,13,8,14,15,2,4>>, <<7,14,13,10,9,10,11,9,11,14,12,6,0,15,15,14>>, <<14,3,2,8,6,6,13,3,0,13,6,10,7,8,11,0>>, <<3,7,3,9,0,7,6,10,9,15,0,3,2,12,13,12>>, <<5,10,15,11,9,5,6,5,0,6,8,10,3,12,3,8>>, <<6,4,1,6,5,9,12,0,7,8,11,6,1,13,10,15>>, <<15,14,2,13,9,13,1,13,14,3,7,7,11,0,0,8>>, <<13,8,10,2,3,0,13,14,0,2,9,6,9,3,2,6>>, <<15,10,9,9,9,15,9,11,8,6,13,14,3,3,6,5>>, <<10,15,13,8,6,4,3,2,1,1,0,3,5,0,8,3>>, <<1,4,13,4,13,10,13,6,13,13,15,10,14,8,0,8>>,
  <<15,3,0,5,14,14,9,5,10,15,11,1,2,0,15,4>>, <<14,12,11,3,13,5,6,1,11,13,15,0,11,0,1,5>>, <<6,5,2,6,4,9,6,1,10,11,4,4,1,4,10,14>>, <<5,12,7,12,11,12,6,2,0,1,10,4,15,7,10,1>>, <<1,13,11,12,2,4,15,13,0,10,8,10,10,1,14,4>>, <<0,0,15,5,2,0,15,4,9,14,15,1,12,8,4,6>>, <<4,5,3,4,3,2,12,13,15,15,14,11,5,13,5,15>>, <<10,3,14,15,8,0,2,14,13,15,8,6,9,3,12,14>>, <<4,10,14,3,0,2,15,3,11,3,1,14,9,11,14,8>>, <<14,6,9,5,15,8,11,10,11,10,2,3,3,8,15,14>>, <<2,4,0,3,9,7,2,1,3,10,0,8,2,9,2,1>>, <<9,2,10,6,5,1,13,7,12,0,6,9,12,5,4,2>>,
  <<3,0,15,2,12,4,8,5,4,9,11,5,6,4,15,11>>, <<6,15,1,11,13,13,0,7,1,10,15,15,7,1,10,14>>, <<11,7,6,2,6,15,4,9,7,5,15,13,3,5,3,7>>, <<6,2,5,6,5,10,9,5,5,4,8,7,11,5,12,3>>, <<5,4,10,8,7,6,2,11,2,11,1,2,12,9,2,12>>, <<10,5,14,3,10,7,1,9,6,11,15,5,2,13,15,13>>, <<10,15,15,14,2,5,5,4,14,5,10,14,15,6,9,9>>, <<2,5,14,4,9,7,9,13,6,15,6,13,13,15,7,9>>, <<14,14,14,8,4,11,12,11,7,2,8,1,11,8,10,9>>, <<2,5,12,2,9,11,6,10,11,5,7,5,11,12,6,14>>, <<5,0,14,10,1,3,2,4,8,6,2,15,7,8,14,1>>, <<3,5,7,8,3,15,6,6,2,1,1,4,12,2,13,6>>,
  <<2,15,13,3,11,9,15,2,14,9,0,15,7,9,15,8>>, <<5,9,6,3,0,5,11,3,7,1,11,2,2,1,14,4>>, <<15,11,12,5,9,14,9,2,12,10,1,2,0,9,10,13>>, <<6,13,6,2,14,4,0,12,6,3,8,13,5,2,1,10>>, <<7,13,15,0,15,14,6,11,12,14,8,13,7,5,15,2>>, <<11,10,13,3,1,1,6,11,6,3,11,8,10,8,9,7>>, <<12,11,10,11,5,11,5,1,3,8,5,12,5,15,13,12>>, <<7,0,7,4,2,1,13,4,3,2,3,9,13,0,4,11>>, <<3,4,4,10,15,4,5,4,15,0,10,6,1,12,5,14>>, <<11,5,12,2,5,13,4,2,9,6,2,6,13,8,12,4>>, <<14,7,14,3,15,5,2,12,0,12,11,15,4,0,4,13>>, <<0,8,8,4,15,13,1,6,6,3,6,10,11,15,8,12>>,
  <<10,2,1,7,12,15,2,5,3,11,14,9,5,7,6,7>>, <<13,14,15,10,7,8,6,4,1,5,10,12,1,5,12,3>>, <<5,13,1,5,8,14,4,4,2,15,12,15,3,11,8,7>>, <<11,14,3,15,14,10,15,13,0,14,9,6,14,13,9,11>>, <<10,13,7,0,2,7,12,15,10,3,5,8,12,11,1,13>>, <<3,11,10,10,1,7,15,9,2,12,6,2,3,10,12,3>>, <<4,12,2,10,11,13,10,10,9,12,5,12,1,1,14,11>>, <<1,6,2,13,5,12,7,2,9,12,12,13,3,14,1,15>>, <<13,14,6,12,8,7,6,2,11,4,7,5,14,1,5,14>>, <<12,0,6,1,12,9,9,11,8,3,1,10,3,5,2,10>>, <<12,5,7,12,7,9,9,8,4,8,13,0,0,2,11,14>>, <<14,2,0,9,1,15,4,9,14,0,10,1,0,13,2,11>>,
  <<6,9,5,3,10,1,1,5,5,10,6,2,13,13,12,4>>, <<0,13,12,15,0,3,5,11,7,5,5,2,12,6,14,8>>, <<11,2,6,1,13,0,13,2,10,1,12,2,13,9,11,15>>, <<10,10,6,6,11,4,6,4,8,4,2,0,11,8,13,9>>, <<10,6,0,4,14,5,10,15,15,4,13,11,1,12,1,14>>, <<8,12,1,4,1,8,3,8,15,4,6,8,6,0,10,2>>, <<11,12,0,2,11,10,6,7,14,14,0,4,11,13,13,14>>, <<6,14,3,12,1,8,12,9,14,15,1,15,10,0,10,3>>, <<7,4,6,0,13,2,0,13,9,4,11,9,12,13,11,5>>, <<4,1,3,7,7,0,14,2,7,13,7,13,14,1,15,5>>, <<7,9,12,4,5,12,3,8,11,4,4,0,15,15,14,0>>, <<5,6,5,2,5,12,14,0,3,7,2,5,11,13,0,12>>,
  <<0,10,12,15,14,11,10,4,4,4,1,0,3,0,10,14>>, <<0,13,7,4,2,2,5,6,0,11,3,6,15,3,12,13>>, <<5,9,8,12,10,3,11,4,2,9,11,1,0,8,2,3>>, <<4,10,3,0,15,7,12,13,0,0,15,13,14,12,2,3>>, <<0,1,13,3,4,6,9,0,10,7,9,5,10,12,5,4>>, <<1,0,4,13,15,15,6,6,2,3,15,1,11,6,7,14>>, <<6,13,8,0,10,11,0,8,12,9,6,3,13,1,4,8>>, <<3,8,13,15,14,7,6,11,10,14,3,5,8,2,9,0>>, <<9,11,12,15,11,1,12,4,15,8,7,14,3,5,6,0>>, <<8,14,12,9,14,10,9,8,6,5,8,1,15,9,3,4>>, <<3,8,9,1,10,14,15,5,14,11,14,0,5,7,2,12>>, <<3,1,5,14,8,0,8,0,7,4,2,5,15,4,14,9>>,
  <<9,11,11,10,12,8,3,8,5,6,14,9,11,7,8,13>>, <<9,11,3,10,0,12,8,9,1,10,3,2,14,1,4,8>>, <<1,5,14,11,3,10,3,13,14,2,0,1,4,10,4,5>>, <<5,1,10,11,15,5,14,5,12,11,7,7,5,14,2,4>>, <<8,9,3,0,13,1,7,9,5,2,10,11,7,9,3,15>>, <<14,4,11,10,12,13,7,8,7,4,10,11,10,9,15,12>>, <<4,1,6,8,7,0,5,10,5,3,3,12,9,10,3,1>>, <<8,5,10,1,2,8,2,10,0,7,6,1,5,8,5,11>>, <<3,0,10,12,7,9,13,13,0,11,5,10,10,15,14,15>>, <<1,4,8,2,7,10,8,9,5,14,6,3,6,4,12,6>>, <<13,14,11,4,14,6,12,4,3,5,10,7,12,6,14,13>>, <<5,8,8,2,14,3,11,11,8,6,4,6,9,6,12,1>>,
  <<13,6,5,8,11,1,11,3,3,0,1,2,10,14,1,12>>, <<4,0,5,3,11,1,8,8,3,3,9,13,7,8,15,5>>, <<11,10,10,1,7,2,10,12,10,12,3,3,15,6,4,4>>, <<4,13,2,3,6,5,5,5,11,12,5,0,7,4,10,12>>, <<8,4,5,3,9,8,1,3,4,15,14,14,7,1,4,4>>, <<6,2,7,9,13,9,4,4,13,12,2,8,9,7,12,6>>, <<7,11,6,9,14,6,9,0,4,1,3,0,0,8,7,9>>, <<13,15,3,9,12,12,10,10,5,8,0,12,7,9,15,12>>, <<3,13,6,14,2,6,6,7,11,6,6,5,1,13,6,14>>, <<4,14,4,9,13,15,5,6,0,11,6,4,8,10,12,13>>, <<8,13,4,14,2,7,5,3,14,15,2,6,10,5,11,7>>, <<0,2,5,11,7,12,5,15,1,2,8,4,11,9,13,7>>,
  <<7,14,12,12,0,4,0,12,7,5,15,15,9,3,15,0>>, <<7,0,2,13,12,8,8,10,11,9,7,15,11,3,11,11>>, <<14,10,12,10,3,8,1,1,0,12,2,6,14,5,13,9>>, <<6,9,8,0,11,5,6,1,12,15,1,10,12,12,12,1>>, <<7,14,5,11,6,3,7,13,15,10,9,8,12,1,1,5>>, <<7,0,10,10,15,5,2,5,7,5,14,4,1,7,13,13>>, <<1,5,14,10,14,9,13,2,1,14,3,13,5,9,13,0>>, <<3,13,11,11,10,3,10,15,1,4,13,11,10,13,2,2>>, <<13,3,8,6,1,11,5,8,1,9,4,6,6,5,13,3>>, <<2,7,5,15,2,7,5,12,12,3,15,3,15,7,4,13>>, <<14,2,5,14,6,5,1,2,6,9,15,12,11,14,15,0>>, <<3,6,10,5,11,14,0,6,14,11,5,2,14,14,0,1>>
  >>

ZOBRIST_CASTLING_KEYS ==
  <<
  <<9,12,13,13,9,15,6,12,7,0,12,13,12,4,10,8>>,
  <<13,1,6,9,0,3,15,2,1,3,11,15,10,9,15,14>>,
  <<8,15,1,11,5,11,14,1,6,13,4,11,10,6,9,12>>,
  <<14,2,15,8,8,0,5,1,12,1,3,12,6,6,8,8>>,
  <<6,4,15,12,0,13,11,10,13,4,4,15,8,5,14,7>>,
  <<15,5,7,11,8,10,9,2,0,10,1,2,15,3,11,3>>,
  <<3,15,14,14,2,15,12,7,2,14,2,13,15,15,13,15>>,
  <<3,8,5,5,3,10,12,8,7,13,7,1,8,5,9,1>>,
  <<13,7,2,8,5,2,5,6,2,0,12,10,3,5,10,11>>,
  <<4,7,6,12,4,8,7,8,13,14,15,15,14,13,7,10>>,
  <<5,10,2,3,7,5,4,11,14,15,3,8,13,4,2,6>>,
  <<15,14,10,2,10,3,3,10,5,1,13,1,1,11,12,13>>,
  <<1,11,7,7,0,13,14,11,6,15,5,1,14,10,7,8>>,
  <<14,6,4,13,13,13,9,1,8,14,9,11,1,8,5,14>>,
  <<9,12,2,14,5,5,6,2,4,9,1,6,14,8,4,4>>,
  <<12,9,15,14,6,0,3,6,8,10,8,3,14,15,12,8>>
  >>

ZOBRIST_EP_KEYS ==
  <<
  <<11,6,0,8,8,12,9,7,3,3,8,0,13,12,15,12>>,
  <<12,7,0,7,14,7,7,11,4,11,15,0,10,14,5,3>>,
  <<8,3,9,7,13,4,1,2,7,1,1,8,11,11,7,1>>,
  <<7,6,4,10,11,5,1,0,9,10,12,11,10,5,8,8>>,
  <<10,2,6,5,2,12,9,14,8,9,4,2,1,12,6,13>>,
  <<4,5,12,5,9,6,13,4,4,2,13,0,1,11,10,3>>,
  <<0,4,3,13,2,12,4,7,3,11,5,6,7,3,5,14>>,
  <<9,13,6,8,3,10,9,14,1,14,6,5,1,10,12,1>>
  >>

ZOBRIST_COLOR_KEY == <<11,6,3,15,8,3,12,6,12,8,9,3,0,9,14,9>>

----------------------------------------------------------------------------
\* Board (src/board.py)

PIECE_KEY(sq, t) == ZOBRIST_PIECE_KEYS[12 * TO_64[sq] + PIECE_CODES[t] + 1]
EP_KEY(sq) == ZOBRIST_EP_KEYS[(TO_64[sq] % 8) + 1]

\* the mailbox Board.__init__ writes
InitialMailbox ==
  [i \in 0..119 |->
     IF TO_64[i] = -1 THEN OUT_OF_BOUNDS
     ELSE IF i \div 10 = 2 THEN <<"r", "n", "b", "q", "k", "b", "n", "r">>[i % 10]
     ELSE IF i \div 10 = 3 THEN "p"
     ELSE IF i \div 10 = 8 THEN "P"
     ELSE IF i \div 10 = 9 THEN <<"R", "N", "B", "Q", "K", "B", "N", "R">>[i % 10]
     ELSE EMPTY]

\* initialize_piece_lists: appends, in index order, to the lists as they are
initialize_piece_lists(lists, mailbox) ==
  [t \in Tokens |->
     lists[t] \o SelectSeq([k \in 1..120 |-> k - 1], LAMBDA i : mailbox[i] = t)]

get_castle_rights_code(p) ==
    (IF p.white_castle_kingside THEN 1 ELSE 0)
  + (IF p.white_castle_queenside THEN 2 ELSE 0)
  + (IF p.black_castle_kingside THEN 4 ELSE 0)
  + (IF p.black_castle_queenside THEN 8 ELSE 0)

RECURSIVE XorAll(_)
\* the XOR of a list of keys, starting from 0
XorAll(keys) ==
  IF Len(keys) = 0 THEN Zero64
  ELSE IF Len(keys) = 1 THEN keys[1]
  ELSE LET h == Len(keys) \div 2 IN
    Xor(XorAll(SubSeq(keys, 1, h)), XorAll(SubSeq(keys, h + 1, Len(keys))))

\* compute_hash: pieces, castling rights, en-passant file, and the colour
\* key, which is XORed in whatever the side to move is
compute_hash(p) ==
  LET pieceKeys ==
        Flatten([c \in 1..12 |->
          LET t == (WHITE_PIECES \o BLACK_PIECES)[c] IN
            [k \in 1..Len(p.piece_lists[t]) |-> PIECE_KEY(p.piece_lists[t][k], t)]])
      h1 == XorAll(pieceKeys)
      h2 == Xor(h1, ZOBRIST_CASTLING_KEYS[get_castle_rights_code(p) + 1])
      h3 == IF p.en_passant_square # NoSquare THEN Xor(h2, EP_KEY(p.en_passant_square)) ELSE h2
  IN Xor(h3, ZOBRIST_COLOR_KEY)

\* Board.__init__
NewBoard ==
  LET lists == initialize_piece_lists([t \in Tokens |-> <<>>], InitialMailbox)
      p0 == [board |-> InitialMailbox,
             color_to_play |-> "white",
             white_castle_kingside |-> TRUE,
             white_castle_queenside |-> TRUE,
             black_castle_kingside |-> TRUE,
             black_castle_queenside |-> TRUE,
             half_move |-> 0,
             ply |-> 0,
             en_passant_square |-> NoSquare,
             piece_lists |-> lists,
             zobrist_hash |-> Zero64,
             history |-> <<>>]
      h == compute_hash(p0)
  IN [p0 EXCEPT !.zobrist_hash = h, !.history = <<h>>]

\* Move.__init__: the move and the time capsule taken from the position
Move(position, moving_piece, source_index, destination_index, piece_captured, is_en_passant, is_castle, promotion_piece) ==
  [moving_piece |-> moving_piece,
   source_index |-> source_index,
   destination_index |-> destination_index,
   piece_captured |-> piece_captured,
   is_en_passant |-> is_en_passant,
   is_castle |-> is_castle,
   promotion_piece |-> promotion_piece,
   previous_white_castle_kingside |-> position.white_castle_kingside,
   previous_white_castle_queenside |-> position.white_castle_queenside,
   previous_black_castle_kingside |-> position.black_castle_kingside,
   previous_black_castle_queenside |-> position.black_castle_queenside,
   previous_en_passant_square |-> position.en_passant_square,
   previous_half_move |-> position.half_move,
   previous_color_to_play |-> position.color_to_play,
   previous_zobrist_hash |-> position.zobrist_hash]

\* rook home and landing squares of the castle whose king lands on dest
CastleRookFrom(dest) ==
  CASE dest = 97 -> 98 [] dest = 93 -> 91 [] dest = 27 -> 28 [] dest = 23 -> 21
CastleRookTo(dest) ==
  CASE dest = 97 -> 96 [] dest = 93 -> 94 [] dest = 27 -> 26 [] dest = 23 -> 24
CastleKing(dest) == IF dest \in {97, 93} THEN "K" ELSE "k"
CastleRook(dest) == IF dest \in {97, 93} THEN "R" ELSE "r"

\* make_move, first half: mailbox, piece lists and the piece keys of the hash
MakePieces(p, move) ==
  LET mp == move.moving_piece
      cap == move.piece_captured
      src == move.source_index
      dst == move.destination_index
  IN
  IF ~move.is_en_passant /\ ~move.is_castle THEN
    LET placed == IF move.promotion_piece # None THEN move.promotion_piece ELSE mp
        l1 == [p.piece_lists EXCEPT ![mp] = ListRemove(@, src)]
        l2 == IF cap # None THEN [l1 EXCEPT ![cap] = ListRemove(@, dst)] ELSE l1
        l3 == [l2 EXCEPT ![placed] = Append(@, dst)]
        Captured(h) == IF cap # None THEN Xor(h, PIECE_KEY(dst, cap)) ELSE h
    IN [p EXCEPT !.board = [@ EXCEPT ![src] = EMPTY, ![dst] = placed],
                 !.piece_lists = l3,
                 !.zobrist_hash =
                    Xor(Captured(Xor(p.zobrist_hash, PIECE_KEY(src, mp))),
                        PIECE_KEY(dst, placed))]
  ELSE IF move.is_en_passant THEN
    LET victim == IF p.color_to_play = "white" THEN dst + 10 ELSE dst - 10
        l1 == [p.piece_lists EXCEPT ![mp] = Append(ListRemove(@, src), dst)]
        l2 == [l1 EXCEPT ![cap] = ListRemove(@, victim)]
    IN [p EXCEPT !.board = [@ EXCEPT ![src] = EMPTY, ![dst] = mp, ![victim] = EMPTY],
                 !.piece_lists = l2,
                 !.zobrist_hash =
                    Xor(Xor(Xor(p.zobrist_hash, PIECE_KEY(src, mp)), PIECE_KEY(dst, mp)),
                        PIECE_KEY(victim, cap))]
  ELSE IF dst \in {97, 93, 27, 23} THEN
    LET k == CastleKing(dst)
        r == CastleRook(dst)
        rf == CastleRookFrom(dst)
        rt == CastleRookTo(dst)
        l1 == [p.piece_lists EXCEPT ![k] = ListRemove(Append(@, dst), src)]
        l2 == [l1 EXCEPT ![r] = Append(ListRemove(@, rf), rt)]
    IN [p EXCEPT !.board = [@ EXCEPT ![dst] = k, ![src] = EMPTY, ![rf] = EMPTY, ![rt] = r],
                 !.piece_lists = l2,
                 !.zobrist_hash =
                    Xor(Xor(Xor(Xor(p.zobrist_hash, PIECE_KEY(dst, k)), PIECE_KEY(src, k)),
                            PIECE_KEY(rf, r)),
                        PIECE_KEY(rt, r))]
  ELSE p

\* NewEnPassantSquare set by every move of a pawn from its home rank
NewEnPassantSquare_AnyAdvance(move) ==
  IF move.moving_piece = "P"
       /\ move.source_index >= 81 /\ move.source_index <= 88
  THEN move.destination_index + 10
  ELSE IF move.moving_piece = "p"
       /\ move.source_index >= 31 /\ move.source_index <= 38
  THEN move.destination_index - 10
  ELSE NoSquare

\* the en-passant square make_move sets
NewEnPassantSquare(move) ==
  IF move.moving_piece = "P"
       /\ move.source_index >= 81 /\ move.source_index <= 88
       /\ move.destination_index >= 61 /\ move.destination_index <= 68
  THEN move.destination_index + 10
  ELSE IF move.moving_piece = "p"
       /\ move.source_index >= 31 /\ move.source_index <= 38
       /\ move.destination_index >= 51 /\ move.destination_index <= 58
  THEN move.destination_index - 10
  ELSE NoSquare

\* NewCastleRights that looks at the king only, not at the rooks' squares
NewCastleRights_KingOnly(q, move) ==
  LET mp == move.moving_piece IN
  [q EXCEPT
     !.white_castle_kingside = IF mp = "K" THEN FALSE ELSE @,
     !.white_castle_queenside = IF mp = "K" THEN FALSE ELSE @,
     !.black_castle_kingside = IF mp = "k" THEN FALSE ELSE @,
     !.black_castle_queenside = IF mp = "k" THEN FALSE ELSE @]

\* the castling rights make_move leaves, read on the mailbox after the move
NewCastleRights(q, move) ==
  LET mp == move.moving_piece IN
  IF move.is_castle THEN
    [q EXCEPT
       !.white_castle_kingside = IF mp = "K" THEN FALSE ELSE @,
       !.white_castle_queenside = IF mp = "K" THEN FALSE ELSE @,
       !.black_castle_kingside = IF mp = "K" THEN @ ELSE IF mp = "k" THEN FALSE ELSE @,
       !.black_castle_queenside = IF mp = "K" THEN @ ELSE IF mp = "k" THEN FALSE ELSE @]
  ELSE
    [q EXCEPT
       !.white_castle_kingside = IF mp = "K" \/ q.board[98] # "R" THEN FALSE ELSE @,
       !.white_castle_queenside = IF mp = "K" \/ q.board[91] # "R" THEN FALSE ELSE @,
       !.black_castle_kingside = IF mp = "k" \/ q.board[28] # "r" THEN FALSE ELSE @,
       !.black_castle_queenside = IF mp = "k" \/ q.board[21] # "r" THEN FALSE ELSE @]

\* Board.make_move
make_move(p, move) ==
  LET half == IF Lower(move.moving_piece) = "p" \/ move.piece_captured # None
              THEN 0 ELSE p.half_move + 1
      ep == NewEnPassantSquare(move)
      \* en-passant square: old file key out, new file key in
      OldFileOut(h) ==
        IF p.en_passant_square # NoSquare THEN Xor(h, EP_KEY(p.en_passant_square)) ELSE h
      NewFileIn(h) == IF ep # NoSquare THEN Xor(h, EP_KEY(ep)) ELSE h
      \* q2: the Board with its new castling rights; h5: its hash
      Written(q2, h5) ==
        [q2 EXCEPT !.ply = p.ply + 1,
                   !.color_to_play = IF p.color_to_play = "white" THEN "black" ELSE "white",
                   !.half_move = half,
                   !.en_passant_square = ep,
                   !.zobrist_hash = h5,
                   !.history = Append(p.history, h5)]
      \* castling rights: old code out (h4), new code in
      WithRights(q2, h4) ==
        Written(q2, Xor(h4, ZOBRIST_CASTLING_KEYS[get_castle_rights_code(q2) + 1]))
      \* q1: the Board with the pieces moved; then the side-to-move key
      AfterPieces(q1) ==
        WithRights(NewCastleRights(q1, move),
                   Xor(NewFileIn(OldFileOut(Xor(q1.zobrist_hash, ZOBRIST_COLOR_KEY))),
                       ZOBRIST_CASTLING_KEYS[get_castle_rights_code(p) + 1]))
  IN AfterPieces(MakePieces(p, move))

\* unmake_move, first half: mailbox and piece lists
UnmakePieces(p, move) ==
  LET mp == move.moving_piece
      cap == move.piece_captured
      src == move.source_index
      dst == move.destination_index
  IN
  IF ~move.is_en_passant /\ ~move.is_castle THEN
    LET gone == IF move.promotion_piece # None THEN move.promotion_piece ELSE mp
        l1 == [p.piece_lists EXCEPT ![mp] = Append(@, src)]
        l2 == IF cap = None THEN l1 ELSE [l1 EXCEPT ![cap] = Append(@, dst)]
        l3 == [l2 EXCEPT ![gone] = ListRemove(@, dst)]
    IN [p EXCEPT !.board = [@ EXCEPT ![src] = mp,
                                     ![dst] = IF cap = None THEN EMPTY ELSE cap],
                 !.piece_lists = l3]
  ELSE IF move.is_en_passant THEN
    LET victim == IF mp = "P" THEN dst + 10 ELSE dst - 10
        pawn == IF mp = "P" THEN "p" ELSE "P"
        l1 == [p.piece_lists EXCEPT ![mp] = ListRemove(Append(@, src), dst)]
        l2 == [l1 EXCEPT ![cap] = Append(@, victim)]
    IN [p EXCEPT !.board = [@ EXCEPT ![src] = mp, ![dst] = EMPTY, ![victim] = pawn],
                 !.piece_lists = l2]
  ELSE IF dst \in {97, 93, 27, 23} THEN
    LET k == CastleKing(dst)
        r == CastleRook(dst)
        rf == CastleRookFrom(dst)
        rt == CastleRookTo(dst)
        home == IF k = "K" THEN 95 ELSE 25
        l1 == [p.piece_lists EXCEPT ![k] = ListRemove(@, dst)]
        l2 == [l1 EXCEPT ![r] = ListRemove(@, rt)]
        l3 == [l2 EXCEPT ![k] = Append(@, home)]
        l4 == [l3 EXCEPT ![r] = Append(@, rf)]
    IN [p EXCEPT !.board = [@ EXCEPT ![dst] = EMPTY, ![rt] = EMPTY, ![home] = k, ![rf] = r],
                 !.piece_lists = l4]
  ELSE p

\* unmake_move with the en-passant square left as the made move set it
unmake_move_KeepsEnPassantSquare(p, move) ==
  LET q == UnmakePieces(p, move) IN
    [q EXCEPT !.ply = p.ply - 1,
              !.color_to_play = move.previous_color_to_play,
              !.half_move = move.previous_half_move,
              !.white_castle_kingside = move.previous_white_castle_kingside,
              !.white_castle_queenside = move.previous_white_castle_queenside,
              !.black_castle_kingside = move.previous_black_castle_kingside,
              !.black_castle_queenside = move.previous_black_castle_queenside,
              !.zobrist_hash = move.previous_zobrist_hash,
              !.history = SubSeq(p.history, 1, Len(p.history) - 1)]

\* Board.unmake_move
unmake_move(p, move) ==
  LET q == UnmakePieces(p, move) IN
    [q EXCEPT !.ply = p.ply - 1,
              !.color_to_play = move.previous_color_to_play,
              !.half_move = move.previous_half_move,
              !.en_passant_square = move.previous_en_passant_square,
              !.white_castle_kingside = move.previous_white_castle_kingside,
              !.white_castle_queenside = move.previous_white_castle_queenside,
              !.black_castle_kingside = move.previous_black_castle_kingside,
              !.black_castle_queenside = move.previous_black_castle_queenside,
              !.zobrist_hash = move.previous_zobrist_hash,
              !.history = SubSeq(p.history, 1, Len(p.history) - 1)]

fifty_move_criteria_met(p) == p.half_move = 100

\* Board.copy: a new Board, every attribute then taken from this one
copy(p) ==
  [NewBoard EXCEPT
     !.board = p.board,
     !.color_to_play = p.color_to_play,
     !.white_castle_kingside = p.white_castle_kingside,
     !.white_castle_queenside = p.white_castle_queenside,
     !.black_castle_kingside = p.black_castle_kingside,
     !.black_castle_queenside = p.black_castle_queenside,
     !.half_move = p.half_move,
     !.ply = p.ply,
     !.en_passant_square = p.en_passant_square,
     !.zobrist_hash = p.zobrist_hash,
     !.history = p.history,
     !.piece_lists = p.piece_lists]

\* is_repetition reads history[i] for i in range(lookback_start_index, ply)
\* and returns True at the first match

\* the read raises IndexError: the loop reaches an index past the end of
\* history before it finds a match
is_repetition_raises(p) ==
  LET lookback_start_index ==
        IF p.ply - p.half_move > 0 THEN p.ply - p.half_move ELSE 0
  IN /\ lookback_start_index <= p.ply - 1
     /\ p.ply - 1 >= Len(p.history)
     /\ \A i \in lookback_start_index..(Len(p.history) - 1) :
          p.history[i + 1] # p.zobrist_hash

\* the loop as range(lookback_start_index, ply + 1): the position's own
\* entry is read too
is_repetition_ThroughPly(p) ==
  LET lookback_start_index ==
        IF p.ply - p.half_move > 0 THEN p.ply - p.half_move ELSE 0
      stop == IF p.ply < Len(p.history) - 1 THEN p.ply ELSE Len(p.history) - 1
  IN \E i \in lookback_start_index..stop : p.history[i + 1] = p.zobrist_hash
is_repetition(p) ==
  LET lookback_start_index ==
        IF p.ply - p.half_move > 0 THEN p.ply - p.half_move ELSE 0
      stop == IF p.ply - 1 < Len(p.history) - 1 THEN p.ply - 1 ELSE Len(p.history) - 1
  IN \E i \in lookback_start_index..stop : p.history[i + 1] = p.zobrist_hash

----------------------------------------------------------------------------
\* Move generator (src/move_generator.py)

\* non_sliding_moves: every target that is not out of bounds
non_sliding_moves(board, source_index, deltas) ==
  SelectSeq([k \in 1..Len(deltas) |-> source_index + deltas[k]],
            LAMBDA t : board[t] # OUT_OF_BOUNDS)

RECURSIVE SlideRay(_, _, _, _)
\* one direction of sliding_moves, from its k-th delta on: stops before an
\* out-of-bounds cell and after the first occupied one
SlideRay(board, source_index, dir, k) ==
  IF k > Len(dir) THEN <<>>
  ELSE LET t == source_index + dir[k] IN
    IF board[t] = OUT_OF_BOUNDS THEN <<>>
    ELSE IF board[t] # EMPTY THEN <<t>>
    ELSE <<t>> \o SlideRay(board, source_index, dir, k + 1)

sliding_moves(board, source_index, deltas) ==
  Flatten([d \in 1..Len(deltas) |-> SlideRay(board, source_index, deltas[d], 1)])

king_moves(board, source_index) == non_sliding_moves(board, source_index, KING_DELTAS)
knight_moves(board, source_index) == non_sliding_moves(board, source_index, KNIGHT_DELTAS)
rook_moves(board, source_index) == sliding_moves(board, source_index, ROOK_DELTAS)
bishop_moves(board, source_index) == sliding_moves(board, source_index, BISHOP_DELTAS)
queen_moves(board, source_index) == sliding_moves(board, source_index, QUEEN_DELTAS)

\* white_pawn_moves / black_pawn_moves: home is the first index of the
\* pawn's home rank, enemy the set of enemy tokens
pawn_moves(board, source_index, deltas, home, enemy) ==
  LET one == source_index + deltas.advances[1]
      two == source_index + deltas.advances[2]
      onHome == source_index >= home /\ source_index <= home + 7
      advances ==
        IF board[one] # EMPTY THEN <<>>
        ELSE IF ~onHome THEN <<one>>
        ELSE IF board[two] # EMPTY THEN <<one>>
        ELSE <<one, two>>
      attacks ==
        SelectSeq([k \in 1..2 |-> source_index + deltas.attacks[k]],
                  LAMBDA t : board[t] \in enemy)
  IN [attacks |-> attacks, advances |-> advances]

white_pawn_moves(board, source_index) ==
  pawn_moves(board, source_index, WHITE_PAWN_DELTAS, 81, BlackSet)
\* the black pawns with the home rank and the enemies of the white ones
black_pawn_moves_WhiteHome(board, source_index) ==
  pawn_moves(board, source_index, BLACK_PAWN_DELTAS, 81, WhiteSet)
black_pawn_moves(board, source_index) ==
  pawn_moves(board, source_index, BLACK_PAWN_DELTAS, 31, WhiteSet)

\* board.index(token): the first index holding the token
BoardIndex(board, token) ==
  CHOOSE i \in 0..119 : board[i] = token /\ \A j \in 0..(i - 1) : board[j] # token

RECURSIVE ThreatRay(_, _, _, _, _)
\* one direction of a slider in get_threat_map: the ray passes through the
\* friendly king and stops after any other piece
ThreatRay(board, index, dir, k, friendly_king) ==
  IF k > Len(dir) THEN <<>>
  ELSE LET t == index + dir[k] IN
    IF board[t] = OUT_OF_BOUNDS THEN <<>>
    ELSE IF board[t] # EMPTY /\ board[t] # friendly_king THEN <<t>>
    ELSE <<t>> \o ThreatRay(board, index, dir, k + 1, friendly_king)

\* the squares one enemy piece adds to the threat map
ThreatsOf(board, index, enemy_pawn_deltas, friendly_king) ==
  LET piece_type == Lower(board[index]) IN
    IF piece_type = "n" THEN knight_moves(board, index)
    ELSE IF piece_type = "k" THEN king_moves(board, index)
    ELSE IF piece_type = "p" THEN
      SelectSeq([k \in 1..2 |-> index + enemy_pawn_deltas.attacks[k]],
                LAMBDA t : board[t] # OUT_OF_BOUNDS)
    ELSE
      LET deltas == IF piece_type = "q" THEN QUEEN_DELTAS
                    ELSE IF piece_type = "r" THEN ROOK_DELTAS
                    ELSE BISHOP_DELTAS
      IN Flatten([d \in 1..Len(deltas) |->
                    ThreatRay(board, index, deltas[d], 1, friendly_king)])

\* get_threat_map: the list of enemy-controlled squares (with repetitions)
\* and the number of times the friendly king's square occurs in it
get_threat_map(position, enemy_color) ==
  LET board == position.board
      enemy_pieces == IF enemy_color = "white" THEN WhiteSet ELSE BlackSet
      friendly_king == IF enemy_color = "white" THEN "k" ELSE "K"
      enemy_pawn_deltas == IF enemy_color = "white" THEN WHITE_PAWN_DELTAS
                           ELSE BLACK_PAWN_DELTAS
      threat_map ==
        Flatten([k \in 1..120 |->
          IF board[k - 1] \in enemy_pieces
          THEN ThreatsOf(board, k - 1, enemy_pawn_deltas, friendly_king)
          ELSE <<>>])
  IN [threat_map |-> threat_map,
      check_count |-> ListCount(threat_map, BoardIndex(board, friendly_king))]

RECURSIVE CastRay(_, _, _, _, _, _, _, _)
\* the while loop of get_checks_and_pins along one direction; cur is the
\* index the loop stands on, n the friendly pieces met so far
CastRay(board, white, d, cur, n, closest, pin_path, check_path) ==
  IF board[cur] = OUT_OF_BOUNDS THEN [kind |-> "none"]
  ELSE
    LET nxt == cur + DIRECTION_DELTAS[d]
        sq == board[nxt]
        friendly == IF white THEN WhiteSet ELSE BlackSet
        enemy == IF white THEN BlackSet ELSE WhiteSet
        orth == IF white THEN {"r", "q"} ELSE {"R", "Q"}
        diag == IF white THEN {"b", "q"} ELSE {"B", "Q"}
    IN
    IF sq \in friendly THEN
      IF n + 1 = 2 THEN [kind |-> "none"]
      ELSE CastRay(board, white, d, nxt, n + 1,
                   IF n + 1 = 1 THEN nxt ELSE closest, pin_path, check_path)
    ELSE IF sq = EMPTY THEN
      CastRay(board, white, d, nxt, n, closest,
              IF n = 1 THEN Append(pin_path, nxt) ELSE pin_path,
              IF n = 0 THEN Append(check_path, nxt) ELSE check_path)
    ELSE IF sq \in enemy THEN
      IF (d <= 4 /\ sq \in orth) \/ (d > 4 /\ sq \in diag) THEN
        IF n = 0 THEN
          [kind |-> "check", checker_index |-> nxt, check_path |-> check_path,
           is_sliding |-> TRUE]
        ELSE IF n = 1 THEN
          [kind |-> "pin", pinner_index |-> nxt, pinned_piece_index |-> closest,
           pin_path |-> pin_path \o check_path]
        ELSE CastRay(board, white, d, nxt, n, closest, pin_path, check_path)
      ELSE [kind |-> "none"]
    ELSE CastRay(board, white, d, nxt, n, closest, pin_path, check_path)

\* get_checks_and_pins: rays from the king, then knight and pawn checks
get_checks_and_pins(position, source_index) ==
  LET board == position.board
      white == position.color_to_play = "white"
      enemy_pawn == IF white THEN "p" ELSE "P"
      enemy_knight == IF white THEN "n" ELSE "N"
      pawn_deltas == IF white THEN WHITE_PAWN_DELTAS.attacks ELSE BLACK_PAWN_DELTAS.attacks
      rays == [d \in 1..8 |-> CastRay(board, white, d, source_index, 0, NoSquare, <<>>, <<>>)]
      pinRays == SelectSeq(rays, LAMBDA r : r.kind = "pin")
      checkRays == SelectSeq(rays, LAMBDA r : r.kind = "check")
      NonSliding(t) == [checker_index |-> t, check_path |-> <<>>, is_sliding |-> FALSE]
      knightChecks ==
        SelectSeq([k \in 1..8 |-> source_index + KNIGHT_DELTAS[k]],
                  LAMBDA t : board[t] = enemy_knight)
      pawnChecks ==
        SelectSeq([k \in 1..2 |-> source_index + pawn_deltas[k]],
                  LAMBDA t : board[t] = enemy_pawn)
  IN [checks |->
        [k \in 1..Len(checkRays) |->
           [checker_index |-> checkRays[k].checker_index,
            check_path |-> checkRays[k].check_path,
            is_sliding |-> TRUE]]
        \o [k \in 1..Len(knightChecks) |-> NonSliding(knightChecks[k])]
        \o [k \in 1..Len(pawnChecks) |-> NonSliding(pawnChecks[k])],
      pins |->
        [k \in 1..Len(pinRays) |->
           [pinner_index |-> pinRays[k].pinner_index,
            pinned_piece_index |-> pinRays[k].pinned_piece_index,
            pin_path |-> pinRays[k].pin_path]]]

\* the per-colour variables generate_moves sets up, with the threat map and
\* the checks and pins of the position
GenContext(position) ==
  LET white == position.color_to_play = "white"
      friendly_king == IF white THEN "K" ELSE "k"
      tm == get_threat_map(position, IF white THEN "black" ELSE "white")
      king_index == BoardIndex(position.board, friendly_king)
      cp == IF tm.check_count < 2 THEN get_checks_and_pins(position, king_index)
            ELSE [checks |-> <<>>, pins |-> <<>>]
  IN [white |-> white,
      friendly_king |-> friendly_king,
      friendly_pawn |-> IF white THEN "P" ELSE "p",
      enemy_pawn |-> IF white THEN "p" ELSE "P",
      friendly_pieces |-> IF white THEN WhiteSet ELSE BlackSet,
      enemy_pieces |-> IF white THEN BlackSet ELSE WhiteSet,
      pawn_deltas |-> IF white THEN WHITE_PAWN_DELTAS ELSE BLACK_PAWN_DELTAS,
      promotion_squares |-> IF white THEN 21..28 ELSE 91..98,
      promotion_pieces |-> IF white THEN <<"B", "N", "R", "Q">> ELSE <<"b", "n", "r", "q">>,
      castle_kingside |-> IF white THEN position.white_castle_kingside
                          ELSE position.black_castle_kingside,
      castle_queenside |-> IF white THEN position.white_castle_queenside
                           ELSE position.black_castle_queenside,
      kingside_castle_path |-> IF white THEN <<96, 97>> ELSE <<26, 27>>,
      queenside_castle_path |-> IF white THEN <<92, 93, 94>> ELSE <<22, 23, 24>>,
      queenside_king_castle_path |-> IF white THEN <<93, 94>> ELSE <<23, 24>>,
      castle_kingside_destination |-> IF white THEN 97 ELSE 27,
      castle_queenside_destination |-> IF white THEN 93 ELSE 23,
      king_home_square |-> IF white THEN 95 ELSE 25,
      threat_map |-> Range(tm.threat_map),
      check_count |-> tm.check_count,
      king_index |-> king_index,
      checks |-> cp.checks,
      pins |-> cp.pins,
      is_check |-> Len(cp.checks) > 0]

\* the pseudo-legal destinations of the piece on index, in the source's order
PseudoLegalMoves(position, c, index, piece) ==
  LET board == position.board
      t == Lower(piece)
  IN
    IF t = "n" THEN knight_moves(board, index)
    ELSE IF t = "b" THEN bishop_moves(board, index)
    ELSE IF t = "r" THEN rook_moves(board, index)
    ELSE IF t = "q" THEN queen_moves(board, index)
    ELSE IF t = "k" THEN king_moves(board, index)
    ELSE
      LET d == IF c.white THEN white_pawn_moves(board, index)
               ELSE black_pawn_moves(board, index)
      IN d.attacks \o d.advances
         \o SelectSeq([k \in 1..2 |-> index + c.pawn_deltas.attacks[k]],
                      LAMBDA x : x = position.en_passant_square)

\* the validation step for one destination: the four rounds of filtering
PassesFilters(position, c, index, piece, destination) ==
  LET k == CHOOSE j \in 0..Len(c.pins) :
             /\ (j = 0 \/ c.pins[j].pinned_piece_index = index)
             /\ \A i \in 1..Len(c.pins) :
                  c.pins[i].pinned_piece_index = index => (j # 0 /\ j <= i)
  IN
  /\ ~( /\ c.is_check
        /\ piece # c.friendly_king
        /\ IF ~c.checks[1].is_sliding
           THEN destination # c.checks[1].checker_index
           ELSE /\ destination \notin Range(c.checks[1].check_path)
                /\ destination # c.checks[1].checker_index )
  /\ ~(piece = c.friendly_king /\ destination \in c.threat_map)
  /\ ~( /\ k # 0
        /\ destination \notin Range(c.pins[k].pin_path)
        /\ destination # c.pins[k].pinner_index )
  /\ position.board[destination] \notin c.friendly_pieces

\* the Move objects appended for a destination that passed the filters
MovesFor(position, c, index, piece, destination) ==
  LET target == position.board[destination]
      piece_captured == IF target \in c.enemy_pieces THEN target ELSE None
  IN
    IF piece # c.friendly_pawn THEN
      <<Move(position, piece, index, destination, piece_captured, FALSE, FALSE, None)>>
    ELSE IF destination = position.en_passant_square THEN
      <<Move(position, piece, index, destination, c.enemy_pawn, TRUE, FALSE, None)>>
    ELSE IF destination \in c.promotion_squares THEN
      [n \in 1..4 |->
         Move(position, piece, index, destination, piece_captured, FALSE, FALSE,
              c.promotion_pieces[n])]
    ELSE
      <<Move(position, piece, index, destination, piece_captured, FALSE, FALSE, None)>>

\* all legal Move objects of the piece on index
MovesOfPiece(position, c, index) ==
  LET piece == position.board[index]
      dests == PseudoLegalMoves(position, c, index, piece)
  IN Flatten([n \in 1..Len(dests) |->
       IF PassesFilters(position, c, index, piece, dests[n])
       THEN MovesFor(position, c, index, piece, dests[n])
       ELSE <<>>])

\* CastlingMoves that wants every square between king and queenside rook
\* out of the threat map
CastlingMoves_BFileGuarded(position, c) ==
  LET board == position.board
      kingside ==
        /\ c.castle_kingside
        /\ ~c.is_check
        /\ \A i \in Range(c.kingside_castle_path) :
             board[i] = EMPTY /\ i \notin c.threat_map
      queenside ==
        /\ c.castle_queenside
        /\ ~c.is_check
        /\ \A i \in Range(c.queenside_castle_path) : board[i] = EMPTY
        /\ \A i \in Range(c.queenside_castle_path) : i \notin c.threat_map
  IN (IF kingside
      THEN <<Move(position, c.friendly_king, c.king_home_square,
                  c.castle_kingside_destination, None, FALSE, TRUE, None)>>
      ELSE <<>>)
     \o
     (IF queenside
      THEN <<Move(position, c.friendly_king, c.king_home_square,
                  c.castle_queenside_destination, None, FALSE, TRUE, None)>>
      ELSE <<>>)

\* the castling moves generated by hand after the board scan
CastlingMoves(position, c) ==
  LET board == position.board
      kingside ==
        /\ c.castle_kingside
        /\ ~c.is_check
        /\ \A i \in Range(c.kingside_castle_path) :
             board[i] = EMPTY /\ i \notin c.threat_map
      queenside ==
        /\ c.castle_queenside
        /\ ~c.is_check
        /\ \A i \in Range(c.queenside_castle_path) : board[i] = EMPTY
        /\ \A i \in Range(c.queenside_king_castle_path) : i \notin c.threat_map
  IN (IF kingside
      THEN <<Move(position, c.friendly_king, c.king_home_square,
                  c.castle_kingside_destination, None, FALSE, TRUE, None)>>
      ELSE <<>>)
     \o
     (IF queenside
      THEN <<Move(position, c.friendly_king, c.king_home_square,
                  c.castle_queenside_destination, None, FALSE, TRUE, None)>>
      ELSE <<>>)

\* the double-check branch: king moves only
DoubleCheckMoves(position, c) ==
  LET board == position.board
      dests == SelectSeq(king_moves(board, c.king_index),
                 LAMBDA d : d \notin c.threat_map /\ board[d] \notin c.friendly_pieces)
  IN [n \in 1..Len(dests) |->
        Move(position, c.friendly_king, c.king_index, dests[n],
             IF board[dests[n]] \in c.enemy_pieces THEN board[dests[n]] ELSE None,
             FALSE, FALSE, None)]

\* the list legal_moves that generate_moves builds, c being its variables
LegalMovesIn(position, c) ==
  IF c.check_count < 2 THEN
    Flatten([k \in 1..120 |->
      IF position.board[k - 1] \in c.friendly_pieces
      THEN MovesOfPiece(position, c, k - 1)
      ELSE <<>>])
    \o CastlingMoves(position, c)
  ELSE DoubleCheckMoves(position, c)

LegalMoves(position) == LegalMovesIn(position, GenContext(position))

\* generate_moves: its return statement hands back the list legal_moves
\* alone; the check count of the threat map is not part of the value
generate_moves(position) ==
  [type |-> "list", value |-> LegalMoves(position)]

\* generate_moves as src/backend/engine.py and the game service import it:
\* they unpack a pair, the legal moves and the check count.  That module
\* is not among the sources; the pair is put together from the list and
\* the check count that the generator above computes.
engine_generate_moves(position) ==
  LET c == GenContext(position) IN
    [legal_moves |-> LegalMovesIn(position, c), check_count |-> c.check_count]

----------------------------------------------------------------------------
\* FEN loader (src/utils.py).  A FEN string is held as the list its
\* split(' ') gives, each part a list of characters.

Digits == <<"0", "1", "2", "3", "4", "5", "6", "7", "8", "9">>
isdigit(ch) == ch \in Range(Digits)
DigitValue(ch) == IndexOf(Digits, ch, 1) - 1

RECURSIVE int(_)
\* int() of a list of decimal digits
int(chars) ==
  IF Len(chars) = 0 THEN 0
  ELSE 10 * int(SubSeq(chars, 1, Len(chars) - 1)) + DigitValue(chars[Len(chars)])

Files == <<"a", "b", "c", "d", "e", "f", "g", "h">>

\* ALGEBRAIC_TO_INDEX.get(name, None)
ALGEBRAIC_TO_INDEX(chars) ==
  IF /\ Len(chars) = 2
     /\ chars[1] \in Range(Files)
     /\ isdigit(chars[2]) /\ DigitValue(chars[2]) \in 1..8
  THEN 10 * (10 - DigitValue(chars[2])) + IndexOf(Files, chars[1], 1)
  ELSE NoSquare

\* how far one character of the piece-placement field moves board_index
FenStep(ch) == IF ch = "/" THEN 2 ELSE IF isdigit(ch) THEN DigitValue(ch) ELSE 1

RECURSIVE FenIndex(_, _)
\* board_index when the loop reaches the k-th character
FenIndex(chars, k) ==
  IF k = 1 THEN 21 ELSE FenIndex(chars, k - 1) + FenStep(chars[k - 1])

\* the loop over the piece-placement field: a digit writes that many empty
\* cells, a letter writes itself, a slash writes nothing; of several writes
\* to one cell the last one stands
PlacePieces(mailbox, chars) ==
  LET at == [k \in 1..Len(chars) |-> FenIndex(chars, k)]
      Writes(k, i) ==
        /\ chars[k] # "/"
        /\ i >= at[k]
        /\ i < at[k] + FenStep(chars[k])
  IN [i \in 0..119 |->
        LET ws == {k \in 1..Len(chars) : Writes(k, i)} IN
          IF ws = {} THEN mailbox[i]
          ELSE LET k == CHOOSE w \in ws : \A v \in ws : v <= w IN
            IF isdigit(chars[k]) THEN EMPTY ELSE chars[k]]

\* set_board_from_fen: mailbox, side, rights, en-passant square, counters
\* and piece lists are set; zobrist_hash and history are not touched
set_board_from_fen(p, parts) ==
  IF Len(parts) # 6 THEN p
  ELSE
    LET new_board == PlacePieces(p.board, parts[1])
        color == IF parts[2] = <<"w">> THEN "white" ELSE "black"
        castling == Range(parts[3])
    IN [p EXCEPT
          !.board = new_board,
          !.color_to_play = color,
          !.white_castle_kingside = "K" \in castling,
          !.white_castle_queenside = "Q" \in castling,
          !.black_castle_kingside = "k" \in castling,
          !.black_castle_queenside = "q" \in castling,
          !.en_passant_square = ALGEBRAIC_TO_INDEX(parts[4]),
          !.half_move = int(parts[5]),
          !.ply = (int(parts[6]) - 1) * 2 + (IF color = "black" THEN 1 ELSE 0),
          !.piece_lists = initialize_piece_lists([t \in Tokens |-> <<>>], new_board)]

\* The FEN strings the model loads, after split(' ')

\* 7k/3p4/8/4P3/4K3/8/8/8 b - - 0 40  (black to move; after d7d5+ the only capture of the checking pawn is e5xd6 en passant)
FEN_EP_EVASION ==
  << <<"7", "k", "/", "3", "p", "4", "/", "8", "/", "4", "P", "3", "/", "4", "K", "3", "/", "8", "/", "8", "/", "8">>,
     <<"b">>,
     <<"-">>,
     <<"-">>,
     <<"0">>,
     <<"4", "0">> >>

\* 7k/2p5/8/KP5r/8/8/8/8 b - - 0 40  (black to move; after c7c5, b5xc6 en passant would open the rank a5-h5)
FEN_EP_RANK ==
  << <<"7", "k", "/", "2", "p", "5", "/", "8", "/", "K", "P", "5", "r", "/", "8", "/", "8", "/", "8", "/", "8">>,
     <<"b">>,
     <<"-">>,
     <<"-">>,
     <<"0">>,
     <<"4", "0">> >>

\* r3k2r/p6p/8/8/8/8/P6P/R3K2R w KQkq - 0 20  (all four castles available)
FEN_CASTLES ==
  << <<"r", "3", "k", "2", "r", "/", "p", "6", "p", "/", "8", "/", "8", "/", "8", "/", "8", "/", "P", "6", "P", "/", "R", "3", "K", "2", "R">>,
     <<"w">>,
     <<"K", "Q", "k", "q">>,
     <<"-">>,
     <<"0">>,
     <<"2", "0">> >>

\* 4k2r/8/8/8/8/8/8/4K2R w Kk - 0 30  (h1xh8 captures a rook on its home square)
FEN_ROOK_TAKES ==
  << <<"4", "k", "2", "r", "/", "8", "/", "8", "/", "8", "/", "8", "/", "8", "/", "8", "/", "4", "K", "2", "R">>,
     <<"w">>,
     <<"K", "k">>,
     <<"-">>,
     <<"0">>,
     <<"3", "0">> >>

\* 1n2k3/P7/8/8/8/8/8/4K3 w - - 0 50  (a7-a8 and a7xb8 promote)
FEN_PROMOTION ==
  << <<"1", "n", "2", "k", "3", "/", "P", "7", "/", "8", "/", "8", "/", "8", "/", "8", "/", "8", "/", "4", "K", "3">>,
     <<"w">>,
     <<"-">>,
     <<"-">>,
     <<"0">>,
     <<"5", "0">> >>

----------------------------------------------------------------------------
\* The rules of chess, stated on the mailbox without the generator's threat
\* map, checks and pins: the yardstick for the generator's output.

PlayableSquares == {i \in 0..119 : TO_64[i] # -1}

\* to is reached from from by 1..7 steps of d over empty squares
ClearLine(board, from, to, d) ==
  \E n \in 1..7 :
    /\ from + n * d = to
    /\ \A j \in 1..(n - 1) : board[from + j * d] = EMPTY

\* the piece standing on from attacks the square to
Attacks(board, from, to) ==
  LET t == board[from]
      k == Lower(t)
  IN /\ to \in PlayableSquares
     /\ from # to
     /\ CASE k = "n" -> (to - from) \in Range(KNIGHT_DELTAS)
          [] k = "k" -> (to - from) \in Range(KING_DELTAS)
          [] k = "r" -> \E d \in {-10, 10, 1, -1} : ClearLine(board, from, to, d)
          [] k = "b" -> \E d \in {-9, -11, 11, 9} : ClearLine(board, from, to, d)
          [] k = "q" -> \E d \in Range(DIRECTION_DELTAS) : ClearLine(board, from, to, d)
          [] t = "P" -> (to - from) \in {-9, -11}
          [] t = "p" -> (to - from) \in {9, 11}
          [] OTHER -> FALSE

\* square sq is attacked by a piece of the colour whose tokens are attackers
Attacked(board, sq, attackers) ==
  \E from \in PlayableSquares : board[from] \in attackers /\ Attacks(board, from, sq)

\* the king of the side whose tokens are own is attacked
KingAttacked(board, own) ==
  LET king == IF own = WhiteSet THEN "K" ELSE "k"
      enemy == IF own = WhiteSet THEN BlackSet ELSE WhiteSet
  IN \E sq \in PlayableSquares : board[sq] = king /\ Attacked(board, sq, enemy)

\* what identifies a move: the seven fields, without the time capsule
MoveKey(m) ==
  <<m.moving_piece, m.source_index, m.destination_index, m.piece_captured,
    m.is_en_passant, m.is_castle, m.promotion_piece>>

\* the mailbox after the move with key k, by the rules
RuleApply(board, k) ==
  LET src == k[2]
      dst == k[3]
      placed == IF k[7] # None THEN k[7] ELSE k[1]
      b1 == [board EXCEPT ![src] = EMPTY, ![dst] = placed]
  IN IF k[5] THEN [b1 EXCEPT ![IF k[1] = "P" THEN dst + 10 ELSE dst - 10] = EMPTY]
     ELSE IF k[6] THEN
       [b1 EXCEPT ![IF dst > src THEN dst + 1 ELSE dst - 2] = EMPTY,
                  ![IF dst > src THEN dst - 1 ELSE dst + 1] = board[IF dst > src THEN dst + 1 ELSE dst - 2]]
     ELSE b1

\* the moves that obey the movement rules, before the king's safety is
\* looked at
RulePseudoMoves(p) ==
  LET board == p.board
      white == p.color_to_play = "white"
      own == IF white THEN WhiteSet ELSE BlackSet
      enemy == IF white THEN BlackSet ELSE WhiteSet
      pawn == IF white THEN "P" ELSE "p"
      fwd == IF white THEN -10 ELSE 10
      homeRow == IF white THEN 8 ELSE 3
      lastRow == IF white THEN 2 ELSE 9
      promos == IF white THEN {"Q", "R", "B", "N"} ELSE {"q", "r", "b", "n"}
      Promote(src, dst, cap) ==
        IF dst \div 10 = lastRow
        THEN {<<pawn, src, dst, cap, FALSE, FALSE, pr>> : pr \in promos}
        ELSE {<<pawn, src, dst, cap, FALSE, FALSE, None>>}
      pieceMoves ==
        {<<board[src], src, dst, IF board[dst] \in enemy THEN board[dst] ELSE None,
           FALSE, FALSE, None>> :
           <<src, dst>> \in {x \in PlayableSquares \X PlayableSquares :
                               /\ board[x[1]] \in own \ {pawn}
                               /\ board[x[2]] \notin own
                               /\ Attacks(board, x[1], x[2])}}
      pawnSquares == {s \in PlayableSquares : board[s] = pawn}
      pushes ==
        UNION {IF board[s + fwd] = EMPTY THEN Promote(s, s + fwd, None) ELSE {} :
                 s \in pawnSquares}
      doubles ==
        {<<pawn, s, s + 2 * fwd, None, FALSE, FALSE, None>> :
           s \in {x \in pawnSquares : /\ x \div 10 = homeRow
                                      /\ board[x + fwd] = EMPTY
                                      /\ board[x + 2 * fwd] = EMPTY}}
      captures ==
        UNION {Promote(x[1], x[2], board[x[2]]) :
                 x \in {y \in pawnSquares \X PlayableSquares :
                          Attacks(board, y[1], y[2]) /\ board[y[2]] \in enemy}}
      enPassant ==
        {<<pawn, s, p.en_passant_square, IF white THEN "p" ELSE "P", TRUE, FALSE, None>> :
           s \in {x \in pawnSquares : /\ p.en_passant_square # NoSquare
                                      /\ Attacks(board, x, p.en_passant_square)}}
      home == IF white THEN 95 ELSE 25
      king == IF white THEN "K" ELSE "k"
      rook == IF white THEN "R" ELSE "r"
      kingside ==
        /\ IF white THEN p.white_castle_kingside ELSE p.black_castle_kingside
        /\ board[home] = king /\ board[home + 3] = rook
        /\ board[home + 1] = EMPTY /\ board[home + 2] = EMPTY
        /\ \A sq \in {home, home + 1, home + 2} : ~Attacked(board, sq, enemy)
      queenside ==
        /\ IF white THEN p.white_castle_queenside ELSE p.black_castle_queenside
        /\ board[home] = king /\ board[home - 4] = rook
        /\ board[home - 1] = EMPTY /\ board[home - 2] = EMPTY /\ board[home - 3] = EMPTY
        /\ \A sq \in {home, home - 1, home - 2} : ~Attacked(board, sq, enemy)
  IN pieceMoves \cup pushes \cup doubles \cup captures \cup enPassant
     \cup (IF kingside THEN {<<king, home, home + 2, None, FALSE, TRUE, None>>} ELSE {})
     \cup (IF queenside THEN {<<king, home, home - 2, None, FALSE, TRUE, None>>} ELSE {})

\* the legal moves by the rules: those that leave the mover's king unattacked
RuleLegalMoves(p) ==
  LET own == IF p.color_to_play = "white" THEN WhiteSet ELSE BlackSet IN
    {k \in RulePseudoMoves(p) : ~KingAttacked(RuleApply(p.board, k), own)}

----------------------------------------------------------------------------
\* evaluate_position (src/evaluation.py).  The source computes in floats;
\* the value is a multiple of 1/max_phase, and a score here is that value
\* times max_phase, an integer.

max_phase == 24

\* the table that flips nothing: every index mapped to itself
FLIP_Unflipped == [i \in 1..120 |-> i - 1]

\* FLIP, indexed from 0 in the source: FLIP[i + 1] here
FLIP ==
  <<    0,    1,    2,    3,    4,    5,    6,    7,    8,    9,
       10,   11,   12,   13,   14,   15,   16,   17,   18,   19,
       20,   91,   92,   93,   94,   95,   96,   97,   98,   29,
       30,   81,   82,   83,   84,   85,   86,   87,   88,   39,
       40,   71,   72,   73,   74,   75,   76,   77,   78,   49,
       50,   61,   62,   63,   64,   65,   66,   67,   68,   59,
       60,   51,   52,   53,   54,   55,   56,   57,   58,   69,
       70,   41,   42,   43,   44,   45,   46,   47,   48,   79,
       80,   31,   32,   33,   34,   35,   36,   37,   38,   89,
       90,   21,   22,   23,   24,   25,   26,   27,   28,   99,
      100,  101,  102,  103,  104,  105,  106,  107,  108,  109,
      110,  111,  112,  113,  114,  115,  116,  117,  118,  119 >>

\* piece-square tables, indexed from 0 in the source: PST[i + 1] here
MG_PAWN_PST ==
  <<    0,    0,    0,    0,    0,    0,    0,    0,
       98,  134,   61,   95,   68,  126,   34,  -11,
       -6,    7,   26,   31,   65,   56,   25,  -20,
      -14,   13,    6,   21,   23,   12,   17,  -23,
      -27,   -2,   -5,   12,   17,    6,   10,  -25,
      -26,   -4,   -4,  -10,    3,    3,   33,  -12,
      -35,   -1,  -20,  -23,  -15,   24,   38,  -22,
        0,    0,    0,    0,    0,    0,    0,    0 >>

EG_PAWN_PST ==
  <<    0,    0,    0,    0,    0,    0,    0,    0,
      178,  173,  158,  134,  147,  132,  165,  187,
       94,  100,   85,   67,   56,   53,   82,   84,
       32,   24,   13,    5,   -2,    4,   17,   17,
       13,    9,   -3,   -7,   -7,   -8,    3,   -1,
        4,    7,   -6,    1,    0,   -5,   -1,   -8,
       13,    8,    8,   10,   13,    0,    2,   -7,
        0,    0,    0,    0,    0,    0,    0,    0 >>

MG_KNIGHT_PST ==
  << -167,  -89,  -34,  -49,   61,  -97,  -15, -107,
      -73,  -41,   72,   36,   23,   62,    7,  -17,
      -47,   60,   37,   65,   84,  129,   73,   44,
       -9,   17,   19,   53,   37,   69,   18,   22,
      -13,    4,   16,   13,   28,   19,   21,   -8,
      -23,   -9,   12,   10,   19,   17,   25,  -16,
      -29,  -53,  -12,   -3,   -1,   18,  -14,  -19,
     -105,  -21,  -58,  -33,  -17,  -28,  -19,  -23 >>

EG_KNIGHT_PST ==
  <<  -58,  -38,  -13,  -28,  -31,  -27,  -63,  -99,
      -25,   -8,  -25,   -2,   -9,  -25,  -24,  -52,
      -24,  -20,   10,    9,   -1,   -9,  -19,  -41,
      -17,    3,   22,   22,   22,   11,    8,  -18,
      -18,   -6,   16,   25,   16,   17,    4,  -18,
      -23,   -3,   -1,   15,   10,   -3,  -20,  -22,
      -42,  -20,  -10,   -5,   -2,  -20,  -23,  -44,
      -29,  -51,  -23,  -15,  -22,  -18,  -50,  -64 >>

MG_BISHOP_PST ==
  <<  -29,    4,  -82,  -37,  -25,  -42,    7,   -8,
      -26,   16,  -18,  -13,   30,   59,   18,  -47,
      -16,   37,   43,   40,   35,   50,   37,   -2,
       -4,    5,   19,   50,   37,   37,    7,   -2,
       -6,   13,   13,   26,   34,   12,   10,    4,
        0,   15,   15,   15,   14,   27,   18,   10,
        4,   15,   16,    0,    7,   21,   33,    1,
      -33,   -3,  -14,  -21,  -13,  -12,  -39,  -21 >>

EG_BISHOP_PST ==
  <<  -14,  -21,  -11,   -8,   -7,   -9,  -17,  -24,
       -8,   -4,    7,  -12,   -3,  -13,   -4,  -14,
        2,   -8,    0,   -1,   -2,    6,    0,    4,
       -3,    9,   12,    9,   14,   10,    3,    2,
       -6,    3,   13,   19,    7,   10,   -3,   -9,
      -12,   -3,    8,   10,   13,    3,   -7,  -15,
      -14,  -18,   -7,   -1,    4,   -9,  -15,  -27,
      -23,   -9,  -23,   -5,   -9,  -16,   -5,  -17 >>

MG_ROOK_PST ==
  <<   32,   42,   32,   51,   63,    9,   31,   43,
       27,   32,   58,   62,   80,   67,   26,   44,
       -5,   19,   26,   36,   17,   45,   61,   16,
      -24,  -11,    7,   26,   24,   35,   -8,  -20,
      -36,  -26,  -12,   -1,    9,   -7,    6,  -23,
      -45,  -25,  -16,  -17,    3,    0,   -5,  -33,
      -44,  -16,  -20,   -9,   -1,   11,   -6,  -71,
      -19,  -13,    1,   17,   16,    7,  -37,  -26 >>

EG_ROOK_PST ==
  <<   13,   10,   18,   15,   12,   12,    8,    5,
       11,   13,   13,   11,   -3,    3,    8,    3,
        7,    7,    7,    5,    4,   -3,   -5,   -3,
        4,    3,   13,    1,    2,    1,   -1,    2,
        3,    5,    8,    4,   -5,   -6,   -8,  -11,
       -4,    0,   -5,   -1,   -7,  -12,   -8,  -16,
       -6,   -6,    0,    2,   -9,   -9,  -11,   -3,
       -9,    2,    3,   -1,   -5,  -13,    4,  -20 >>

MG_QUEEN_PST ==
  <<  -28,    0,   29,   12,   59,   44,   43,   45,
      -24,  -39,   -5,    1,  -16,   57,   28,   54,
      -13,  -17,    7,    8,   29,   56,   47,   57,
      -27,  -27,  -16,  -16,   -1,   17,   -2,    1,
       -9,  -26,   -9,  -10,   -2,   -4,    3,   -3,
      -14,    2,  -11,   -2,   -5,    2,   14,    5,
      -35,   -8,   11,    2,    8,   15,   -3,    1,
       -1,  -18,   -9,   10,  -15,  -25,  -31,  -50 >>

EG_QUEEN_PST ==
  <<   -9,   22,   22,   27,   27,   19,   10,   20,
      -17,   20,   32,   41,   58,   25,   30,    0,
      -20,    6,    9,   49,   47,   35,   19,    9,
        3,   22,   24,   45,   57,   40,   57,   36,
      -18,   28,   19,   47,   31,   34,   39,   23,
      -16,  -27,   15,    6,    9,   17,   10,    5,
      -22,  -23,  -30,  -16,  -16,  -23,  -36,  -32,
      -33,  -28,  -22,  -43,   -5,  -32,  -20,  -41 >>

MG_KING_PST ==
  <<  -65,   23,   16,  -15,  -56,  -34,    2,   13,
       29,   -1,  -20,   -7,   -8,   -4,  -38,  -29,
       -9,   24,    2,  -16,  -20,    6,   22,  -22,
      -17,  -20,  -12,  -27,  -30,  -25,  -14,  -36,
      -49,   -1,  -27,  -39,  -46,  -44,  -33,  -51,
      -14,  -14,  -22,  -46,  -44,  -30,  -15,  -27,
        1,    7,   -8,  -64,  -43,  -16,    9,    8,
      -15,   36,   12,  -54,    8,  -28,   24,   14 >>

EG_KING_PST ==
  <<  -74,  -35,  -18,  -18,  -11,   15,    4,  -17,
      -12,   17,   14,   17,   17,   38,   23,   11,
       10,   17,   23,   15,   20,   45,   44,   13,
       -8,   22,   24,   27,   26,   33,   26,    3,
      -18,   -4,   21,   24,   27,   23,    9,  -11,
      -19,   -3,   11,   21,   23,   16,    7,   -9,
      -27,  -11,    4,   13,   14,    4,   -5,  -17,
      -53,  -34,  -21,  -11,  -28,  -14,  -24,  -43 >>

KING_ATTACK_PENALTIES ==
  <<    0,    5,   15,   40,   70,  100,  150,  200,  250,  300 >>

RECURSIVE SumAll(_)
\* the sum of a list of numbers (by halves)
SumAll(xs) ==
  IF Len(xs) = 0 THEN 0
  ELSE IF Len(xs) = 1 THEN xs[1]
  ELSE LET h == Len(xs) \div 2 IN
    SumAll(SubSeq(xs, 1, h)) + SumAll(SubSeq(xs, h + 1, Len(xs)))

\* `target_square in king_ring`: target_square is the token standing on the
\* target index (a str), king_ring a list of indices (int); a str is equal
\* to no int, so the test is false whatever the position
InKingRing(target_square, king_ring) == FALSE

\* one direction of a slider's loop: the targets visited before the break,
\* the empty ones counted as mobility, those in the ring as attacks
RayTerms(board, index, deltas, king_ring) ==
  LET visited ==
        {k \in 1..Len(deltas) :
           /\ \A j \in 1..(k - 1) : board[index + deltas[j]] = EMPTY
           /\ board[index + deltas[k]] # OUT_OF_BOUNDS}
  IN [mobility |-> Cardinality({k \in visited : board[index + deltas[k]] = EMPTY}),
      attacks |-> Cardinality({k \in visited :
                                 InKingRing(board[index + deltas[k]], king_ring)})]

\* the knight's loop: `continue` on an out-of-bounds target
KnightTerms(board, index, king_ring) ==
  LET visited == {k \in 1..Len(KNIGHT_DELTAS) :
                    board[index + KNIGHT_DELTAS[k]] # OUT_OF_BOUNDS}
  IN [mobility |-> Cardinality({k \in visited :
                                  board[index + KNIGHT_DELTAS[k]] = EMPTY}),
      attacks |-> Cardinality({k \in visited :
                                 InKingRing(board[index + KNIGHT_DELTAS[k]], king_ring)})]

\* what one piece adds: mid-game and end-game material with its PST entry,
\* mobility, attack score on the enemy king ring, game phase
PieceTerms(board, piece, index, enemy_king_ring) ==
  LET white == piece \in WhiteSet
      kind == Lower(piece)
      index_64 == IF white THEN TO_64[index] ELSE TO_64[FLIP[index + 1]]
      dirs == CASE kind = "q" -> QUEEN_DELTAS
                [] kind = "r" -> ROOK_DELTAS
                [] kind = "b" -> BISHOP_DELTAS
                [] OTHER -> <<>>
      rays == [d \in 1..Len(dirs) |-> RayTerms(board, index, dirs[d], enemy_king_ring)]
      knight == KnightTerms(board, index, enemy_king_ring)
      bonus == CASE kind = "q" -> 5 [] kind = "r" -> 4 [] OTHER -> 2
  IN [mg |-> CASE kind = "k" -> 20000 + MG_KING_PST[index_64 + 1]
               [] kind = "q" -> 900 + MG_QUEEN_PST[index_64 + 1]
               [] kind = "r" -> 500 + MG_ROOK_PST[index_64 + 1]
               [] kind = "b" -> 330 + MG_BISHOP_PST[index_64 + 1]
               [] kind = "n" -> 320 + MG_KNIGHT_PST[index_64 + 1]
               [] kind = "p" -> 100 + MG_PAWN_PST[index_64 + 1],
      eg |-> CASE kind = "k" -> 20000 + EG_KING_PST[index_64 + 1]
               [] kind = "q" -> 900 + EG_QUEEN_PST[index_64 + 1]
               [] kind = "r" -> 500 + EG_ROOK_PST[index_64 + 1]
               [] kind = "b" -> 330 + EG_BISHOP_PST[index_64 + 1]
               [] kind = "n" -> 320 + EG_KNIGHT_PST[index_64 + 1]
               [] kind = "p" -> 100 + EG_PAWN_PST[index_64 + 1],
      mobility |-> IF kind = "n" THEN knight.mobility
                   ELSE SumAll([d \in 1..Len(dirs) |-> rays[d].mobility]),
      attack |-> bonus * (IF kind = "n" THEN knight.attacks
                          ELSE SumAll([d \in 1..Len(dirs) |-> rays[d].attacks])),
      phase |-> CASE kind = "q" -> 4 [] kind = "r" -> 2 [] kind = "b" -> 1
                  [] kind = "n" -> 1 [] OTHER -> 0]

\* the pawn-shield penalty of a king standing on its back rank
ShieldPenalty(board, king_index, back_rank, ideal_rank_start, pushed_rank_start, pawn) ==
  IF king_index \div 10 # back_rank THEN 0
  ELSE LET king_file == king_index % 10 IN
    SumAll([n \in 1..3 |->
      LET file == king_file - 2 + n IN
        IF board[ideal_rank_start + file] # pawn
        THEN (IF board[pushed_rank_start + file] # pawn THEN 25 ELSE 15)
        ELSE 0])

evaluate_position(position) ==
  LET piece_lists == position.piece_lists
      board == position.board
      w_king_index == piece_lists["K"][1]
      b_king_index == piece_lists["k"][1]
      w_king_ring == [k \in 1..8 |-> w_king_index + KING_DELTAS[k]]
      b_king_ring == [k \in 1..8 |-> b_king_index + KING_DELTAS[k]]
      Terms(pieces, ring) ==
        Flatten([c \in 1..6 |->
          [k \in 1..Len(piece_lists[pieces[c]]) |->
             PieceTerms(board, pieces[c], piece_lists[pieces[c]][k], ring)]])
      w == Terms(WHITE_PIECES, b_king_ring)
      b == Terms(BLACK_PIECES, w_king_ring)
      Total(ts, F(_)) == SumAll([k \in 1..Len(ts) |-> F(ts[k])])
      phase == Total(w, LAMBDA t : t.phase) + Total(b, LAMBDA t : t.phase)
      game_phase == IF phase < max_phase THEN phase ELSE max_phase
      w_mg_eval == Total(w, LAMBDA t : t.mg)
      w_eg_eval == Total(w, LAMBDA t : t.eg)
      b_mg_eval == Total(b, LAMBDA t : t.mg)
      b_eg_eval == Total(b, LAMBDA t : t.eg)
      w_king_attack_score == Total(w, LAMBDA t : t.attack)
      b_king_attack_score == Total(b, LAMBDA t : t.attack)
      Capped(n) == IF n < 9 THEN n ELSE 9
      w_king_safety_penalty ==
        ShieldPenalty(board, w_king_index, 9, 80, 70, "P")
          + KING_ATTACK_PENALTIES[Capped(b_king_attack_score) + 1]
      b_king_safety_penalty ==
        ShieldPenalty(board, b_king_index, 2, 30, 40, "p")
          + KING_ATTACK_PENALTIES[Capped(w_king_attack_score) + 1]
      mobility_adjustment ==
        2 * (Total(w, LAMBDA t : t.mobility) - Total(b, LAMBDA t : t.mobility))
  IN  \* max_phase * ((w_interp_eval - b_interp_eval) + mobility_adjustment
      \*              + king_safety_adjustment)
        (w_mg_eval * game_phase + w_eg_eval * (max_phase - game_phase))
      - (b_mg_eval * game_phase + b_eg_eval * (max_phase - game_phase))
      + max_phase * mobility_adjustment
      + (b_king_safety_penalty - w_king_safety_penalty) * game_phase

----------------------------------------------------------------------------
\* Search (src/backend/engine.py).  Scores are the source's centipawn
\* values times max_phase (see evaluate_position); move-ordering scores are
\* the source's times 10 (PIECE_VALUES holds 3.3 and 3.2).

INFINITY == 2000000000     \* float('inf'): above every finite score
MAX_DEPTH == 64
TT_SIZE == 262144
DELTA == 100
WIN_SCORE == 500
MATE_SCORE == 99999
Q_MAX_DEPTH == 8
BOOK_PLY == 20
FUTILITY_MARGINS == <<0, 100, 300>>

\* PIECE_VALUES, times 10
PIECE_VALUES ==
  [t \in {"k", "q", "r", "b", "n", "p"} |->
     CASE t = "k" -> 100 [] t = "q" -> 90 [] t = "r" -> 50
       [] t = "b" -> 33 [] t = "n" -> 32 [] t = "p" -> 10]

\* centipawns as a score
Centi(c) == c * max_phase

\* x + c in floats: infinity stays infinity
Plus(x, c) == IF x = INFINITY \/ x = -INFINITY THEN x ELSE x + c

Max(a, b) == IF a >= b THEN a ELSE b
Min(a, b) == IF a <= b THEN a ELSE b
Abs(a) == IF a >= 0 THEN a ELSE -a

\* None where the source holds a Move object or None.  A Move object is the
\* Move with the identity (oid) of the object: Move defines no __eq__, so
\* == and `in` compare identities.
NoMove == [oid |-> 0]
SameObject(a, b) == a # NoMove /\ b # NoMove /\ a.oid = b.oid

\* the Move objects of one generate_moves call, n objects existing before
Objects(legal_moves, n) ==
  [k \in 1..Len(legal_moves) |-> [move |-> legal_moves[k], oid |-> n + k]]

\* Search.__init__
NewSearch(depth) ==
  [depth |-> depth,
   max_q_depth |-> 0,
   nodes_searched |-> 0,
   killer_table |-> [d \in 0..MAX_DEPTH |-> <<NoMove, NoMove>>],
   history_table |-> [t \in Tokens |-> [sq \in 0..119 |-> 0]],
   transposition_table |-> <<>>,      \* the slots that hold an entry
   search_cycle |-> 0]

\* score_move
score_move(S, move, depth, hash_move) ==
  IF hash_move # NoMove /\ SameObject(move, hash_move) THEN 20000
  ELSE IF move.move.piece_captured # None THEN
    10000 + PIECE_VALUES[Lower(move.move.piece_captured)] * 10
          - PIECE_VALUES[Lower(move.move.moving_piece)]
  ELSE IF \E k \in 1..2 : SameObject(move, S.killer_table[depth][k]) THEN 9000
  ELSE 10 * S.history_table[move.move.moving_piece][move.move.destination_index]

\* legal_moves.sort(key=lambda move: self.score_move(move, depth, hash_move),
\* reverse=True): descending by score, equal scores in the order they had
SortDescending(S, list, depth, hash_move) ==
  LET n == Len(list)
      keys == [i \in 1..n |-> score_move(S, list[i], depth, hash_move)]
      Before(j, i) == keys[j] > keys[i] \/ (keys[j] = keys[i] /\ j < i)
      Rank(i) == Cardinality({j \in 1..n : Before(j, i)}) + 1
  IN [r \in 1..n |-> list[CHOOSE i \in 1..n : Rank(i) = r]]

\* position_hash & (tt_size - 1), tt_size a power of two below 2^20
TableIndex(position_hash) ==
  (position_hash[12] * 65536 + position_hash[13] * 4096 + position_hash[14] * 256
     + position_hash[15] * 16 + position_hash[16]) % TT_SIZE

NoEntry == [age |-> 0]
TTGet(table, index) == IF index \in DOMAIN table THEN table[index] ELSE NoEntry
TTPut(table, index, entry) ==
  [i \in (DOMAIN table) \cup {index} |-> IF i = index THEN entry ELSE table[i]]

\* the book's answer (get_book_move reads book.bin through python-chess):
\* None or a move in UCI notation
NoBook == <<>>
BOOK_ANSWERS == {NoBook, <<"e", "2", "e", "4">>}

\* parse_user_move: the first legal move with the source and destination
\* (and, for a promotion, the promotion letter) of input_str, or None
parse_user_move(input_str, legal_moves) ==
  IF Len(input_str) < 4 THEN NoMove
  ELSE
    LET source_index == ALGEBRAIC_TO_INDEX(SubSeq(input_str, 1, 2))
        dest_index == ALGEBRAIC_TO_INDEX(SubSeq(input_str, 3, 4))
        Matches(m) ==
          /\ m.move.source_index = source_index
          /\ m.move.destination_index = dest_index
          /\ (m.move.promotion_piece # None =>
                Len(input_str) > 4 /\ Lower(m.move.promotion_piece) = input_str[5])
        hits == {k \in 1..Len(legal_moves) : Matches(legal_moves[k])}
    IN IF source_index = NoSquare \/ dest_index = NoSquare \/ hits = {} THEN NoMove
       ELSE legal_moves[CHOOSE k \in hits : \A j \in hits : k <= j]

\* One activation of search_root, minimax or quiescence_search: its
\* parameters and the locals that live across its recursive calls.
\* move_index counts from 0 as enumerate does; call names the recursive call
\* the activation waits for ("first", "null" or "full" window).
NewFrame(fn, color_to_play, alpha, beta, depth, ply, q_depth) ==
  [fn |-> fn, stage |-> "enter", color_to_play |-> color_to_play,
   alpha |-> alpha, beta |-> beta, depth |-> depth, ply |-> ply, q_depth |-> q_depth,
   legal_moves |-> <<>>, check_count |-> 0, move_index |-> 0, call |-> "none",
   best_eval |-> 0, best_move |-> NoMove,
   original_alpha |-> alpha, original_beta |-> beta,
   futility_enabled |-> FALSE, static_eval |-> 0, stand_pat_eval |-> 0,
   position_hash |-> Zero64, table_index |-> 0, tt_entry |-> NoEntry,
   hash_move |-> NoMove]

NoReturn == [has |-> FALSE, value |-> 0]
Returned(value) == [has |-> TRUE, value |-> value]

Opponent(color) == IF color = "white" THEN "black" ELSE "white"

\* the score of a side that has no legal move
NoMovesScore(position, check_count, ply) ==
  IF check_count > 0
  THEN (IF position.color_to_play = "white" THEN Centi(-MATE_SCORE + ply)
        ELSE Centi(MATE_SCORE - ply))
  ELSE 0

\* search_root up to its loop: the sorted moves, the best move of the last
\* depth first if the list holds that object
search_root_entry(f, position, S, oids, best_move_last_depth) ==
  LET Reordered(sorted) ==
        LET hits == {k \in 1..Len(sorted) : SameObject(sorted[k], best_move_last_depth)}
            first == CHOOSE k \in hits : \A j \in hits : k <= j
        IN IF hits = {} THEN sorted
           ELSE <<sorted[first]>> \o SubSeq(sorted, 1, first - 1)
                  \o SubSeq(sorted, first + 1, Len(sorted))
  IN [f EXCEPT !.stage = "loop",
               !.legal_moves =
                  Reordered(SortDescending(
                    S, Objects(engine_generate_moves(position).legal_moves, oids),
                    f.depth, NoMove)),
               !.best_eval = IF f.color_to_play = "white" THEN -INFINITY ELSE INFINITY]

\* the loop of search_root, from the return of a call (r) to the next call
\* or to the return of best_move
search_root_loop(f, position, r) ==
  LET white == f.color_to_play = "white"
      move == f.legal_moves[f.move_index + 1]
      score == r.value
      better == IF white THEN score > f.best_eval ELSE score < f.best_eval
      f1 == IF ~r.has THEN f
            ELSE [f EXCEPT !.best_eval = IF better THEN score ELSE @,
                           !.best_move = IF better THEN move ELSE @,
                           !.alpha = IF white THEN Max(@, score) ELSE @,
                           !.beta = IF white THEN @ ELSE Min(@, score)]
      next == IF r.has THEN f.move_index + 1 ELSE 0
      \* position1: the board after unmake_move
      Continue(position1) ==
        IF (r.has /\ f1.alpha >= f1.beta) \/ next >= Len(f.legal_moves)
        THEN [kind |-> "return", best_move |-> f1.best_move, best_eval |-> f1.best_eval,
              position |-> position1]
        ELSE [kind |-> "call",
              frame |-> [f1 EXCEPT !.move_index = next, !.call = "full"],
              position |-> make_move(position1, f.legal_moves[next + 1].move),
              child |-> NewFrame("minimax", Opponent(f.color_to_play),
                                 f1.alpha, f1.beta, f.depth - 1, 0, 0)]
  IN Continue(IF r.has THEN unmake_move(position, move.move) ELSE position)

\* minimax_entry using the score of an entry of any depth
minimax_entry_AnyDepth(f, position, S, oids) ==
  LET Entry(g, eval) ==
    LET legal_moves == Objects(g.legal_moves, oids)
        check_count == g.check_count
        made == Len(g.legal_moves)
        \* futility pruning setup
        considered == f.depth <= 2 /\ check_count = 0
        static_eval == IF considered THEN eval ELSE 0
        won_position == Abs(static_eval) > Centi(WIN_SCORE)
        Count(t) == Len(position.piece_lists[t])
        material_count ==
          4 * (Count("Q") + Count("q")) + 2 * (Count("R") + Count("r"))
            + Count("N") + Count("B") + Count("n") + Count("b")
        futility_enabled == considered /\ material_count > 4 /\ ~won_position
        \* transposition-table lookup
        position_hash == position.zobrist_hash
        table_index == TableIndex(position_hash)
        tt_entry == TTGet(S.transposition_table, table_index)
        found == tt_entry # NoEntry /\ tt_entry.hash = position_hash
        usable == found
        alpha == IF usable /\ tt_entry.flag = "LOWERBOUND"
                 THEN Max(f.alpha, tt_entry.eval) ELSE f.alpha
        beta == IF usable /\ tt_entry.flag = "UPPERBOUND"
                THEN Min(f.beta, tt_entry.eval) ELSE f.beta
        hash_move == IF found THEN tt_entry.best_move ELSE NoMove
    IN
    IF Len(legal_moves) = 0 THEN
      [kind |-> "return", value |-> NoMovesScore(position, check_count, f.ply), made |-> made]
    ELSE IF fifty_move_criteria_met(position) THEN
      [kind |-> "return", value |-> 0, made |-> made]
    ELSE IF f.depth = 0 THEN [kind |-> "quiescence", made |-> made]
    ELSE IF usable /\ (tt_entry.flag = "EXACT" \/ alpha >= beta) THEN
      [kind |-> "return", value |-> tt_entry.eval, made |-> made]
    ELSE
      [kind |-> "loop", made |-> made,
       frame |-> [f EXCEPT !.stage = "loop",
                           !.legal_moves =
                              SortDescending(S, legal_moves, f.depth, hash_move),
                           !.check_count = check_count,
                           !.original_alpha = f.alpha,
                           !.original_beta = f.beta,
                           !.alpha = alpha,
                           !.beta = beta,
                           !.futility_enabled = futility_enabled,
                           !.static_eval = static_eval,
                           !.position_hash = position_hash,
                           !.table_index = table_index,
                           !.tt_entry = tt_entry,
                           !.hash_move = hash_move,
                           !.best_eval = IF f.color_to_play = "white" THEN -INFINITY
                                         ELSE INFINITY]]
  IN
  IF is_repetition(position) THEN [kind |-> "return", value |-> 0, made |-> 0]
  ELSE Entry(engine_generate_moves(position), evaluate_position(position))
\* minimax from its time check to its loop: the value it returns before the
\* loop, the hand-over to quiescence_search, or the activation at the loop
minimax_entry(f, position, S, oids) ==
  LET Entry(g, eval) ==
    LET legal_moves == Objects(g.legal_moves, oids)
        check_count == g.check_count
        made == Len(g.legal_moves)
        \* futility pruning setup
        considered == f.depth <= 2 /\ check_count = 0
        static_eval == IF considered THEN eval ELSE 0
        won_position == Abs(static_eval) > Centi(WIN_SCORE)
        Count(t) == Len(position.piece_lists[t])
        material_count ==
          4 * (Count("Q") + Count("q")) + 2 * (Count("R") + Count("r"))
            + Count("N") + Count("B") + Count("n") + Count("b")
        futility_enabled == considered /\ material_count > 4 /\ ~won_position
        \* transposition-table lookup
        position_hash == position.zobrist_hash
        table_index == TableIndex(position_hash)
        tt_entry == TTGet(S.transposition_table, table_index)
        found == tt_entry # NoEntry /\ tt_entry.hash = position_hash
        usable == found /\ tt_entry.depth >= f.depth
        alpha == IF usable /\ tt_entry.flag = "LOWERBOUND"
                 THEN Max(f.alpha, tt_entry.eval) ELSE f.alpha
        beta == IF usable /\ tt_entry.flag = "UPPERBOUND"
                THEN Min(f.beta, tt_entry.eval) ELSE f.beta
        hash_move == IF found THEN tt_entry.best_move ELSE NoMove
    IN
    IF Len(legal_moves) = 0 THEN
      [kind |-> "return", value |-> NoMovesScore(position, check_count, f.ply), made |-> made]
    ELSE IF fifty_move_criteria_met(position) THEN
      [kind |-> "return", value |-> 0, made |-> made]
    ELSE IF f.depth = 0 THEN [kind |-> "quiescence", made |-> made]
    ELSE IF usable /\ (tt_entry.flag = "EXACT" \/ alpha >= beta) THEN
      [kind |-> "return", value |-> tt_entry.eval, made |-> made]
    ELSE
      [kind |-> "loop", made |-> made,
       frame |-> [f EXCEPT !.stage = "loop",
                           !.legal_moves =
                              SortDescending(S, legal_moves, f.depth, hash_move),
                           !.check_count = check_count,
                           !.original_alpha = f.alpha,
                           !.original_beta = f.beta,
                           !.alpha = alpha,
                           !.beta = beta,
                           !.futility_enabled = futility_enabled,
                           !.static_eval = static_eval,
                           !.position_hash = position_hash,
                           !.table_index = table_index,
                           !.tt_entry = tt_entry,
                           !.hash_move = hash_move,
                           !.best_eval = IF f.color_to_play = "white" THEN -INFINITY
                                         ELSE INFINITY]]
  IN
  IF is_repetition(position) THEN [kind |-> "return", value |-> 0, made |-> 0]
  ELSE Entry(engine_generate_moves(position), evaluate_position(position))

\* is_dangerous_pawn_push of the move at index i
DangerousPawnPush(f, i) ==
  LET move == f.legal_moves[i + 1].move
  IN IF f.color_to_play = "white"
     THEN move.moving_piece = "P" /\ move.destination_index <= 48
     ELSE move.moving_piece = "p" /\ move.destination_index >= 71

QuietMove(f, i) ==
  LET move == f.legal_moves[i + 1].move
  IN move.piece_captured = None /\ move.promotion_piece = None /\ ~DangerousPawnPush(f, i)

\* futility pruning skips the move at index i
FutilitySkips(f, i) ==
  LET margin == Centi(FUTILITY_MARGINS[f.depth + 1])
  IN /\ f.futility_enabled
     /\ QuietMove(f, i)
     /\ IF f.color_to_play = "white"
        THEN f.static_eval + margin <= f.alpha
        ELSE f.static_eval - margin >= f.beta

\* the recursive call of minimax for the move at index i
MinimaxCall(f, i, call) ==
  LET white == f.color_to_play = "white"
      reduction ==
        IF f.depth >= 3 /\ i >= 3 /\ QuietMove(f, i) /\ f.check_count = 0 THEN 1 ELSE 0
      null == call = "null"
      alpha == IF null /\ ~white THEN Plus(f.beta, -Centi(1)) ELSE f.alpha
      beta == IF null /\ white THEN Plus(f.alpha, Centi(1)) ELSE f.beta
      depth == IF null THEN f.depth - 1 - reduction ELSE f.depth - 1
  IN NewFrame("minimax", Opponent(f.color_to_play), alpha, beta, depth, f.ply + 1, 0)

\* WriteEntry replacing whatever the slot holds
WriteEntry_Always(f, S) ==
  LET final_eval == f.best_eval
      flag ==
        IF f.color_to_play = "white"
        THEN (IF final_eval >= f.beta THEN "LOWERBOUND"
              ELSE IF final_eval <= f.original_alpha THEN "UPPERBOUND" ELSE "EXACT")
        ELSE (IF final_eval <= f.alpha THEN "UPPERBOUND"
              ELSE IF final_eval >= f.original_beta THEN "LOWERBOUND" ELSE "EXACT")
      should_write == TRUE
      new_entry == [hash |-> f.position_hash, eval |-> final_eval, depth |-> f.depth,
                    flag |-> flag, age |-> S.search_cycle, best_move |-> f.best_move]
  IN IF should_write
     THEN [S EXCEPT !.transposition_table = TTPut(@, f.table_index, new_entry)]
     ELSE S

\* the write to the transposition table that ends minimax
WriteEntry(f, S) ==
  LET final_eval == f.best_eval
      flag ==
        IF f.color_to_play = "white"
        THEN (IF final_eval >= f.beta THEN "LOWERBOUND"
              ELSE IF final_eval <= f.original_alpha THEN "UPPERBOUND" ELSE "EXACT")
        ELSE (IF final_eval <= f.alpha THEN "UPPERBOUND"
              ELSE IF final_eval >= f.original_beta THEN "LOWERBOUND" ELSE "EXACT")
      should_write ==
        \/ f.tt_entry = NoEntry
        \/ f.tt_entry.age < S.search_cycle
        \/ f.depth >= f.tt_entry.depth
      new_entry == [hash |-> f.position_hash, eval |-> final_eval, depth |-> f.depth,
                    flag |-> flag, age |-> S.search_cycle, best_move |-> f.best_move]
  IN IF should_write
     THEN [S EXCEPT !.transposition_table = TTPut(@, f.table_index, new_entry)]
     ELSE S

\* the loop of minimax, from the return of a call (r) to the next call or to
\* the return of final_eval
minimax_loop(f, position, S, r) ==
  LET white == f.color_to_play = "white"
      i == f.move_index
      move == f.legal_moves[i + 1]
      returned_eval == r.value
      research ==
        r.has /\ f.call = "null" /\ returned_eval > f.alpha /\ returned_eval < f.beta
      better == IF white THEN returned_eval > f.best_eval ELSE returned_eval < f.best_eval
      f1 == IF ~r.has THEN f
            ELSE [f EXCEPT !.best_eval = IF better THEN returned_eval ELSE @,
                           !.best_move = IF better THEN move ELSE @,
                           !.alpha = IF white THEN Max(@, returned_eval) ELSE @,
                           !.beta = IF white THEN @ ELSE Min(@, returned_eval)]
      cutoff == r.has /\ f1.alpha >= f1.beta
      S1 == IF cutoff /\ move.move.piece_captured = None
            THEN [S EXCEPT
                    !.killer_table[f.depth] = <<move, @[1]>>,
                    !.history_table[move.move.moving_piece][move.move.destination_index] =
                       @ + f.depth * f.depth]
            ELSE S
      first == IF r.has THEN i + 1 ELSE 0
      candidates == {k \in first..(Len(f.legal_moves) - 1) : ~FutilitySkips(f1, k)}
      next == CHOOSE k \in candidates : \A j \in candidates : k <= j
      call == IF next = 0 THEN "first" ELSE "null"
      \* position1: the board after unmake_move
      Continue(position1) ==
        IF cutoff \/ candidates = {}
        THEN [kind |-> "return", value |-> f1.best_eval, position |-> position1,
              search |-> WriteEntry(f1, S1)]
        ELSE [kind |-> "call",
              frame |-> [f1 EXCEPT !.move_index = next, !.call = call],
              position |-> make_move(position1, f.legal_moves[next + 1].move),
              search |-> S1,
              child |-> MinimaxCall(f1, next, call)]
  IN IF research
     THEN [kind |-> "call", frame |-> [f EXCEPT !.call = "full"], position |-> position,
           search |-> S, child |-> MinimaxCall(f, i, "full")]
     ELSE Continue(IF r.has THEN unmake_move(position, move.move) ELSE position)

\* quiescence_search without its depth limit
quiescence_entry_NoCap(f, position, S, oids) ==
  LET Entry(g, eval) ==
    LET generated == Objects(g.legal_moves, oids)
        check_count == g.check_count
        made == Len(generated)
        legal_moves ==
          IF check_count = 0
          THEN SelectSeq(generated,
                 LAMBDA m : m.move.piece_captured # None \/ m.move.promotion_piece # None)
          ELSE generated
        stand_pat_eval == eval
        white == f.color_to_play = "white"
        Return(v) == [kind |-> "return", value |-> v, made |-> made]
    IN
    IF Len(generated) = 0 THEN Return(NoMovesScore(position, check_count, f.ply))
    ELSE IF check_count = 0 /\ Len(legal_moves) = 0 THEN Return(eval)
    ELSE IF white /\ stand_pat_eval >= f.beta THEN Return(stand_pat_eval)
    ELSE IF ~white /\ stand_pat_eval <= f.alpha THEN Return(stand_pat_eval)
    ELSE IF Len(legal_moves) = 0 THEN Return(stand_pat_eval)
    ELSE
      [kind |-> "loop", made |-> made,
       frame |-> [f EXCEPT !.stage = "loop",
                           !.legal_moves =
                              SortDescending(S, legal_moves, 0, NoMove),
                           !.check_count = check_count,
                           !.alpha = IF white THEN Max(@, stand_pat_eval) ELSE @,
                           !.beta = IF white THEN @ ELSE Min(@, stand_pat_eval),
                           !.stand_pat_eval = stand_pat_eval,
                           !.best_eval = stand_pat_eval]]
  IN Entry(engine_generate_moves(position), evaluate_position(position))

\* quiescence_search from its move generation to its loop: the value it
\* returns before the loop, or the activation at the loop
quiescence_entry(f, position, S, oids) ==
  LET Entry(g, eval) ==
    LET generated == Objects(g.legal_moves, oids)
        check_count == g.check_count
        made == Len(generated)
        legal_moves ==
          IF check_count = 0
          THEN SelectSeq(generated,
                 LAMBDA m : m.move.piece_captured # None \/ m.move.promotion_piece # None)
          ELSE generated
        stand_pat_eval == eval
        white == f.color_to_play = "white"
        Return(v) == [kind |-> "return", value |-> v, made |-> made]
    IN
    IF Len(generated) = 0 THEN Return(NoMovesScore(position, check_count, f.ply))
    ELSE IF check_count = 0 /\ Len(legal_moves) = 0 THEN Return(eval)
    ELSE IF f.q_depth >= Q_MAX_DEPTH THEN Return(eval)
    ELSE IF white /\ stand_pat_eval >= f.beta THEN Return(stand_pat_eval)
    ELSE IF ~white /\ stand_pat_eval <= f.alpha THEN Return(stand_pat_eval)
    ELSE IF Len(legal_moves) = 0 THEN Return(stand_pat_eval)
    ELSE
      [kind |-> "loop", made |-> made,
       frame |-> [f EXCEPT !.stage = "loop",
                           !.legal_moves =
                              SortDescending(S, legal_moves, 0, NoMove),
                           !.check_count = check_count,
                           !.alpha = IF white THEN Max(@, stand_pat_eval) ELSE @,
                           !.beta = IF white THEN @ ELSE Min(@, stand_pat_eval),
                           !.stand_pat_eval = stand_pat_eval,
                           !.best_eval = stand_pat_eval]]
  IN Entry(engine_generate_moves(position), evaluate_position(position))

\* delta pruning skips the move at index i.  material_gain is
\* (victim_value - attacker_value) * 100 centipawns.
DeltaSkips(f, i) ==
  LET move == f.legal_moves[i + 1].move
      attacker_value == PIECE_VALUES[Lower(move.moving_piece)]
      victim_value == PIECE_VALUES[Lower(move.piece_captured)]
      material_gain == Centi((victim_value - attacker_value) * 10)
  IN /\ f.check_count = 0
     /\ move.promotion_piece = None
     /\ IF f.color_to_play = "white"
        THEN f.stand_pat_eval + Centi(DELTA) + material_gain < f.alpha
        ELSE f.stand_pat_eval - Centi(DELTA) - material_gain > f.beta

\* the loop of quiescence_search, from the return of a call (r) to the next
\* call or to the return of max_eval / min_eval
quiescence_loop(f, position, r) ==
  LET white == f.color_to_play = "white"
      move == f.legal_moves[f.move_index + 1]
      returned_eval == r.value
      f1 == IF ~r.has THEN f
            ELSE [f EXCEPT !.best_eval = IF white THEN Max(@, returned_eval)
                                         ELSE Min(@, returned_eval),
                           !.alpha = IF white THEN Max(@, returned_eval) ELSE @,
                           !.beta = IF white THEN @ ELSE Min(@, returned_eval)]
      first == IF r.has THEN f.move_index + 1 ELSE 0
      candidates == {k \in first..(Len(f.legal_moves) - 1) : ~DeltaSkips(f1, k)}
      next == CHOOSE k \in candidates : \A j \in candidates : k <= j
      \* position1: the board after unmake_move
      Continue(position1) ==
        IF (r.has /\ f1.alpha >= f1.beta) \/ candidates = {}
        THEN [kind |-> "return", value |-> f1.best_eval, position |-> position1]
        ELSE [kind |-> "call",
              frame |-> [f1 EXCEPT !.move_index = next, !.call = "full"],
              position |-> make_move(position1, f.legal_moves[next + 1].move),
              child |-> NewFrame("quiescence_search", Opponent(f.color_to_play),
                                 f1.alpha, f1.beta, 0, f.ply + 1, f.q_depth + 1)]
  IN Continue(IF r.has THEN unmake_move(position, move.move) ELSE position)

----------------------------------------------------------------------------
\* The Board under a driver that loads a position, generates the moves of
\* the position and makes and unmakes them (as perft and the game loop do).

MaxMade == 2    \* moves made and not yet unmade
MaxOps == 3     \* make_move and unmake_move calls in one run
MaxAfterGame == 1   \* moves made and not yet unmade after a played game
MaxSearchDepth == 2   \* Search.depth, the deepest iteration of find_best_move

VARIABLES
  root,     \* the caller's Board
  loaded,   \* the FEN loaded into root or the game played on it, <<>> when
            \* neither was
  gen,      \* the value the last generate_moves(root) returned, if still current
  made,     \* the Move objects made on root and not yet unmade, oldest first
  snaps,    \* for each of them, the Board as it was before its make_move
  ops,      \* number of make_move and unmake_move calls so far
  last,     \* the last call on root: its name, its Move and, for unmake_move,
            \* the Board before the paired make_move
  search,       \* the Search object of the session
  search_board, \* find_best_move's search_board
  stack,        \* the activations of search_root, minimax and quiescence_search
  ret,          \* the value the activation that ended last returned
  fb,           \* the locals of find_best_move
  pc,           \* where find_best_move is: "idle", "deepen", "search", "done"
  result,       \* what find_best_move handed to its caller
  oids,         \* number of Move objects created so far
  root0,        \* the caller's Board as it was when find_best_move was called
  session_count,   \* app.state.session_count
  worker_load,     \* app.state.worker_load
  session_map,     \* app.state.session_map
  task_queues,     \* app.state.task_queues
  results_dict,    \* app.state.results_dict
  active_sessions, \* the active_sessions of each worker process
  current,         \* the task each worker has taken from its queue
  requests,        \* the request threads of the dispatcher
  pruner,          \* the prune round under way (periodic or of /status)
  answers,         \* how often results_dict[task_id] was assigned so far
  chess            \* what generate_moves, parse_user_move and board_to_fen give on
                   \* the Boards a session can hold (fixed)

boardVars == <<loaded, gen, made, snaps, ops, last>>
searchVars == <<search, search_board, stack, ret, fb, pc, result, oids, root0>>
serviceVars == <<session_count, worker_load, session_map, task_queues, results_dict,
                 active_sessions, current, requests, pruner, answers, chess>>
vars == <<root, loaded, gen, made, snaps, ops, last,
          search, search_board, stack, ret, fb, pc, result, oids, root0,
          session_count, worker_load, session_map, task_queues, results_dict,
          active_sessions, current, requests, pruner, answers, chess>>

NUM_WORKERS == 2     \* worker processes
MAX_SESSIONS == 1    \* concurrent session cap
MaxRequests == 3     \* request threads of the dispatcher

Workers == 0..(NUM_WORKERS - 1)

NoTask == [command |-> "none"]
NoRequest == [pc |-> "idle"]
NoRound == [pc |-> "idle", rounds |-> 0]
NoChess == <<>>

\* lifespan: the shared state at server start, every worker in task_queue.get()
\* with no session
ServiceIdle ==
  /\ session_count = 0
  /\ worker_load = [i \in Workers |-> 0]
  /\ session_map = <<>>
  /\ task_queues = [i \in Workers |-> <<>>]
  /\ results_dict = <<>>
  /\ active_sessions = [i \in Workers |-> <<>>]
  /\ current = [i \in Workers |-> NoTask]
  /\ requests = [r \in 1..MaxRequests |-> NoRequest]
  /\ pruner = NoRound
  /\ answers = <<>>

\* _make_player_move: the move the notation names among the generated moves
PlayUci(board, uci) ==
  make_move(board,
            parse_user_move(uci, Objects(engine_generate_moves(board).legal_moves, 0)).move)

Uci(a, b, c, d) == <<a, b, c, d>>

RECURSIVE Played(_, _)
Played(board, game) ==
  IF game = <<>> THEN board
  ELSE Played(PlayUci(board, Head(game)), Tail(game))

\* the driver makes the moves of a game as main.py's loop does: the move the
\* notation names among generate_moves(board)
RECURSIVE PlayMoves(_, _)
PlayMoves(board, game) ==
  IF game = <<>> THEN board
  ELSE PlayMoves(make_move(board,
                           parse_user_move(Head(game), Objects(LegalMoves(board), 0)).move),
                 Tail(game))

\* the games the driver may play before it generates moves: the knights go
\* out and back, Nf3 Nf6 Ng1 (Ng8 then repeats the initial position) and
\* Nf3 Nf6 Ng1 Ng8 Nf3 Nf6 Ng1 (Ng8 then ends the sequence of eight)
GAME_KNIGHTS_3 ==
  <<Uci("g", "1", "f", "3"), Uci("g", "8", "f", "6"), Uci("f", "3", "g", "1")>>
GAME_KNIGHTS_7 ==
  GAME_KNIGHTS_3 \o <<Uci("f", "6", "g", "8")>> \o GAME_KNIGHTS_3
PLAYED_GAMES == {GAME_KNIGHTS_3, GAME_KNIGHTS_7}

\* the Board each of the games leaves
GAME_BOARD == [game \in PLAYED_GAMES |-> PlayMoves(NewBoard, game)]

NoValue == [type |-> "none", value |-> <<>>]

FENS == {FEN_EP_EVASION, FEN_EP_RANK, FEN_CASTLES, FEN_ROOK_TAKES, FEN_PROMOTION}

NoResult == [status |-> "none"]
NoLocals ==
  [depth |-> 0, color_to_play |-> "white", final_best_move |-> NoMove,
   last_completed_depth |-> 0, root_moves |-> <<>>, root_evals |-> <<>>, timed_out |-> 0]

\* _new_game: a new Search, find_best_move not yet called
SearchIdle ==
  /\ search = NewSearch(MaxSearchDepth)
  /\ search_board = [position |-> NewBoard, is_root_node |-> FALSE]
  /\ stack = <<>>
  /\ ret = NoReturn
  /\ fb = NoLocals
  /\ pc = "idle"
  /\ result = NoResult
  /\ oids = 0
  /\ root0 = NewBoard

Init ==
  /\ root = NewBoard
  /\ loaded = <<>>
  /\ gen = NoValue
  /\ made = <<>>
  /\ snaps = <<>>
  /\ ops = 0
  /\ last = [op |-> "init", move |-> NoValue, before |-> NewBoard]
  /\ SearchIdle
  /\ ServiceIdle
  /\ chess = NoChess

\* set_board_from_fen(board, fen) on the new Board
LoadFen(f) ==
  /\ last.op = "init"
  /\ gen = NoValue
  /\ root' = set_board_from_fen(root, f)
  /\ loaded' = f
  /\ last' = [op |-> "fen", move |-> NoValue, before |-> root]
  /\ UNCHANGED <<gen, made, snaps, ops>>
  /\ UNCHANGED searchVars
  /\ UNCHANGED serviceVars

\* the moves of a game, made one after the other on the new Board
PlayGame(game) ==
  /\ last.op = "init"
  /\ gen = NoValue
  /\ root' = GAME_BOARD[game]
  /\ loaded' = game
  /\ last' = [op |-> "game", move |-> NoValue, before |-> root]
  /\ UNCHANGED <<gen, made, snaps, ops>>
  /\ UNCHANGED searchVars
  /\ UNCHANGED serviceVars

\* legal_moves = generate_moves(board)
GenerateMoves ==
  /\ gen = NoValue
  /\ ops < MaxOps
  /\ Len(made) < MaxMade
  /\ (loaded \in PLAYED_GAMES => Len(made) < MaxAfterGame)
  /\ gen' = generate_moves(root)
  /\ UNCHANGED <<root, loaded, made, snaps, ops, last>>
  /\ UNCHANGED searchVars
  /\ UNCHANGED serviceVars

\* board.make_move(move) for one of the generated moves
MakeMove(k) ==
  /\ gen # NoValue
  /\ k \in 1..Len(gen.value)
  /\ root' = make_move(root, gen.value[k])
  /\ made' = Append(made, gen.value[k])
  /\ snaps' = Append(snaps, root)
  /\ gen' = NoValue
  /\ ops' = ops + 1
  /\ last' = [op |-> "make", move |-> gen.value[k], before |-> root]
  /\ UNCHANGED loaded
  /\ UNCHANGED searchVars
  /\ UNCHANGED serviceVars

\* board.unmake_move(move) for the move made last
UnmakeMove ==
  /\ Len(made) > 0
  /\ ops < MaxOps
  /\ root' = unmake_move(root, made[Len(made)])
  /\ made' = SubSeq(made, 1, Len(made) - 1)
  /\ snaps' = SubSeq(snaps, 1, Len(snaps) - 1)
  /\ gen' = NoValue
  /\ ops' = ops + 1
  /\ last' = [op |-> "unmake", move |-> made[Len(made)],
              before |-> snaps[Len(snaps)]]
  /\ UNCHANGED loaded
  /\ UNCHANGED searchVars
  /\ UNCHANGED serviceVars

Next ==
  \/ \E f \in FENS : LoadFen(f)
  \/ \E game \in PLAYED_GAMES : PlayGame(game)
  \/ GenerateMoves
  \/ \E k \in 1..218 : MakeMove(k)
  \/ UnmakeMove

Spec == Init /\ [][Next]_vars

----------------------------------------------------------------------------
\* Claims about the Board and the generator

\* the Boards a and b agree on every attribute, the piece lists as sets
SameBoard(a, b) ==
  /\ a.board = b.board
  /\ \A t \in Tokens : Range(a.piece_lists[t]) = Range(b.piece_lists[t])
  /\ a.white_castle_kingside = b.white_castle_kingside
  /\ a.white_castle_queenside = b.white_castle_queenside
  /\ a.black_castle_kingside = b.black_castle_kingside
  /\ a.black_castle_queenside = b.black_castle_queenside
  /\ a.en_passant_square = b.en_passant_square
  /\ a.half_move = b.half_move
  /\ a.ply = b.ply
  /\ a.color_to_play = b.color_to_play
  /\ a.zobrist_hash = b.zobrist_hash
  /\ a.history = b.history

\* C1: make_move(m) followed by unmake_move(m), for a generated move m,
\* leaves the Board as it was before the make_move: mailbox, piece lists
\* (as sets), castling rights, en-passant square, half_move, ply, side to
\* move, zobrist_hash and history.
C1_MakeUnmakeRestores ==
  last.op = "unmake" => SameBoard(root, last.before)

\* a pawn captured onto the last rank and promoted, and the move was
\* unmade: the pawn is back, the captured knight too, the queen is gone
C1_Witness ==
  /\ last.op = "unmake"
  /\ last.move.promotion_piece = "Q"
  /\ last.move.piece_captured = "n"
  /\ root.board[last.move.source_index] = "P"
  /\ root.board[last.move.destination_index] = "n"
  /\ Len(root.piece_lists["Q"]) = 0
  /\ root # make_move(root, last.move)

\* C2: starting from a freshly constructed Board, after each make_move and
\* each unmake_move the incrementally maintained zobrist_hash equals what
\* compute_hash() returns for the current position.
C2_HashEqualsRecomputation ==
  (loaded = <<>> /\ last.op \in {"make", "unmake"})
    => root.zobrist_hash = compute_hash(root)

\* the keys of the moves in a returned list
GeneratedKeys(moves) == {MoveKey(m) : m \in Range(moves)}

\* C3: generate_moves returns exactly the legal moves of the position: each
\* returned move leaves the mover's king unattacked and every move legal
\* under the rules of chess is returned, the en-passant capture of a
\* checking double-pushed pawn included and the en-passant capture that
\* exposes the king along the rank excluded.
C3_GeneratesExactlyLegalMoves ==
  gen # NoValue => GeneratedKeys(gen.value) = RuleLegalMoves(root)

\* C7: generate_moves returns the pair (legal_moves, check_count), where
\* check_count is the number of enemy attacks on the king of the side to
\* move.
C7_ReturnsMovesAndCheckCount ==
  gen # NoValue =>
    /\ gen.type = "tuple"
    /\ Len(gen.value) = 2
    /\ gen.value[2] = get_threat_map(root,
                         IF root.color_to_play = "white" THEN "black"
                         ELSE "white").check_count

\* C9: for a Board at the initial position or loaded from a legal FEN,
\* after any sequence of make_move and unmake_move calls the length of
\* history is ply + 1.
C9_HistoryLengthIsPlyPlusOne ==
  Len(root.history) = root.ply + 1

\* the playable indices on which the token t stands
Standing(p, t) == {i \in PlayableSquares : p.board[i] = t}

\* C10: after every make_move and unmake_move of a generated move the piece
\* lists mirror the mailbox: t stands on index i iff i is in piece_lists[t],
\* and no list holds an index twice.
C10_PieceListsMirrorMailbox ==
  last.op \in {"make", "unmake"} =>
    \A t \in Tokens :
      /\ Range(root.piece_lists[t]) = Standing(root, t)
      /\ Len(root.piece_lists[t]) = Cardinality(Standing(root, t))

\* an en-passant capture was made: the capturing pawn stands on the
\* en-passant square and the captured pawn left the board and its list
C10_Witness ==
  /\ last.op = "make"
  /\ Len(made) = 2
  /\ made[2].is_en_passant
  /\ root.board[made[2].destination_index] = made[2].moving_piece
  /\ Cardinality(Standing(root, made[2].piece_captured))
       = Cardinality(Standing(last.before, made[2].piece_captured)) - 1

\* the Boards a game went through before each of its moves, from board on
RECURSIVE BoardsBefore(_, _)
BoardsBefore(board, game) ==
  IF game = <<>> THEN <<>>
  ELSE <<board>> \o BoardsBefore(PlayMoves(board, <<Head(game)>>), Tail(game))

\* for each played game, the Boards before each of its moves
GAME_BOARDS == [game \in PLAYED_GAMES |-> BoardsBefore(NewBoard, game)]

\* the Boards at plies 0 .. ply - 1 of the game on root
Trail == (IF loaded \in PLAYED_GAMES THEN GAME_BOARDS[loaded] ELSE <<>>) \o snaps

\* C11: on a Board from the starting position is_repetition returns true
\* exactly when the hash of the position equals the hash of a position the
\* game went through at a ply i with max(0, ply - half_move) <= i < ply; it
\* returns true after Nf3 Nf6 Ng1 Ng8 Nf3 Nf6 Ng1 Ng8 and false right after
\* any pawn move or capture.
C11_IsRepetitionSinceIrreversible ==
  /\ (loaded \notin FENS /\ last.op \in {"init", "game", "make", "unmake"}) =>
       /\ ~is_repetition_raises(root)
       /\ LET Found(trail) ==
                 \E i \in Max(0, root.ply - root.half_move)..(root.ply - 1) :
                    trail[i + 1].zobrist_hash = root.zobrist_hash
          IN is_repetition(root) <=> Found(Trail)
  /\ (loaded = GAME_KNIGHTS_7 /\ last.op = "make" /\ root.board = NewBoard.board) =>
       is_repetition(root)
  /\ (last.op = "make" /\ (Lower(last.move.moving_piece) = "p"
                              \/ last.move.piece_captured # None)) =>
       ~is_repetition(root) /\ ~is_repetition_raises(root)

\* the eighth move of the knights' sequence was made: the initial position
\* stands again at ply 8 and is_repetition finds it
C11_Witness ==
  /\ loaded = GAME_KNIGHTS_7
  /\ last.op = "make"
  /\ root.ply = 8
  /\ root.half_move = 8
  /\ root.board = NewBoard.board
  /\ is_repetition(root)

\* C12: after set_board_from_fen the Board is the described position: the
\* piece lists mirror the mailbox, zobrist_hash is the full hash of the
\* position (compute_hash) and history is the single entry holding it.
C12_FenLoadRecomputesHashAndHistory ==
  last.op = "fen" =>
    /\ \A t \in Tokens :
         /\ Range(root.piece_lists[t]) = Standing(root, t)
         /\ Len(root.piece_lists[t]) = Cardinality(Standing(root, t))
    /\ root.zobrist_hash = compute_hash(root)
    /\ root.history = <<compute_hash(root)>>

MaxEvalMade == 1   \* moves made and not unmade on a position that is evaluated

\* the token of the other colour; cells without a piece stay as they are
SwapColour(t) ==
  IF \E k \in 1..6 : WHITE_PIECES[k] = t
  THEN BLACK_PIECES[CHOOSE k \in 1..6 : WHITE_PIECES[k] = t]
  ELSE IF \E k \in 1..6 : BLACK_PIECES[k] = t
  THEN WHITE_PIECES[CHOOSE k \in 1..6 : BLACK_PIECES[k] = t]
  ELSE t

\* the position with the colours of all pieces swapped and the ranks flipped
Mirrored(p) ==
  LET board == [i \in 0..119 |->
                  IF i \in PlayableSquares
                  THEN SwapColour(p.board[(11 - (i \div 10)) * 10 + (i % 10)])
                  ELSE p.board[i]]
  IN [p EXCEPT !.board = board,
               !.piece_lists = initialize_piece_lists([t \in Tokens |-> <<>>], board),
               !.color_to_play = IF p.color_to_play = "white" THEN "black" ELSE "white"]

\* C15: evaluate_position of the mirrored position (colours swapped, ranks
\* flipped) is the negation of evaluate_position of the position, and the
\* starting position evaluates to 0.
\* (The positions are those at most MaxEvalMade moves from the initial, a
\* loaded or a played position, each evaluated where make_move calls alone
\* reach it and before generate_moves is called on it; evaluate_position
\* reads the first entry of both kings' lists.)
C15_EvaluationAntisymmetric ==
  (/\ gen = NoValue
   /\ Len(made) <= MaxEvalMade
   /\ ops = Len(made)
   /\ root.piece_lists["K"] # <<>>
   /\ root.piece_lists["k"] # <<>>) =>
    /\ evaluate_position(Mirrored(root)) = -evaluate_position(root)
    /\ (last.op = "init" => evaluate_position(root) = 0)

\* a position that is not its own mirror image and not balanced: a capture
\* was made, the evaluation is not 0 and the mirrored position evaluates to
\* its negation
C15_Witness ==
  /\ last.op = "make"
  /\ last.move.piece_captured # None
  /\ Mirrored(root).board # root.board
  /\ evaluate_position(root) > 0
  /\ evaluate_position(Mirrored(root)) = -evaluate_position(root)

----------------------------------------------------------------------------
\* find_best_move under the game service: a session's Board after some
\* moves of a game, one call of find_best_move on it.  The clock is read at
\* every time check; whether the limit has passed is open at each of them.

\* the games played before the call
GAME_START == <<>>
GAME_WHITE_MATES ==
  <<Uci("e", "2", "e", "4"), Uci("f", "7", "f", "6"),
    Uci("d", "2", "d", "4"), Uci("g", "7", "g", "5")>>
GAME_BLACK_MATES ==
  <<Uci("f", "2", "f", "3"), Uci("e", "7", "e", "5"), Uci("g", "2", "g", "4")>>
GAME_OVER == Append(GAME_BLACK_MATES, Uci("d", "8", "h", "4"))
GAMES == {GAME_START, GAME_WHITE_MATES, GAME_BLACK_MATES, GAME_OVER}

\* search_board = root_node.copy(): another object than the caller's Board
SearchBoard_Uncopied(root_node) == [position |-> root_node, is_root_node |-> TRUE]
SearchBoard(root_node) == [position |-> copy(root_node), is_root_node |-> FALSE]

\* the caller's Board when the search leaves its board as `position`
Caller(sb, position, root_node) == IF sb.is_root_node THEN position ELSE root_node

\* the reset of the Search object before the iterative deepening
StartSearch(S) ==
  [S EXCEPT !.search_cycle = @ + 1,
            !.nodes_searched = 0,
            !.killer_table = [d \in 0..MAX_DEPTH |-> <<NoMove, NoMove>>],
            !.history_table = [t \in Tokens |-> [sq \in 0..119 |-> @[t][sq] \div 2]]]

\* the dict find_best_move returns after the loop
find_best_move_result_CurrentDepth(L, S) ==
  [status |-> "returned", move |-> L.final_best_move, depth |-> L.depth,
   nodes |-> S.nodes_searched, is_book |-> FALSE]
find_best_move_result(L, S) ==
  [status |-> "returned", move |-> L.final_best_move, depth |-> L.last_completed_depth,
   nodes |-> S.nodes_searched, is_book |-> FALSE]

\* the locals after search_root returned a move for the depth
AfterRootSearch_KeepsPrevious(L, best_move_this_depth, best_eval) ==
  [L EXCEPT !.depth = @ + 1,
            !.root_moves = Append(@, best_move_this_depth),
            !.root_evals = Append(@, best_eval)]
AfterRootSearch(L, best_move_this_depth, best_eval) ==
  [L EXCEPT !.final_best_move = best_move_this_depth,
            !.last_completed_depth = L.depth,
            !.depth = @ + 1,
            !.root_moves = Append(@, best_move_this_depth),
            !.root_evals = Append(@, best_eval)]

Top == stack[Len(stack)]
Rest == SubSeq(stack, 1, Len(stack) - 1)
ReplaceTop(f) == Append(Rest, f)

InitSearch ==
  /\ \E game \in GAMES : root = Played(NewBoard, game)
  /\ loaded = <<>>
  /\ gen = NoValue
  /\ made = <<>>
  /\ snaps = <<>>
  /\ ops = 0
  /\ last = [op |-> "init", move |-> NoValue, before |-> NewBoard]
  /\ SearchIdle
  /\ ServiceIdle
  /\ chess = NoChess

\* find_best_move is called: the opening book, then the reset
FindBestMove(book) ==
  /\ pc = "idle"
  /\ \E legal_moves \in {Objects(engine_generate_moves(root).legal_moves, oids)} :
     LET book_move_uci == IF root.ply < BOOK_PLY THEN book ELSE NoBook
         move_to_play ==
           IF book_move_uci # NoBook THEN parse_user_move(book_move_uci, legal_moves)
           ELSE NoMove
     IN /\ oids' = IF book_move_uci # NoBook THEN oids + Len(legal_moves) ELSE oids
        /\ IF move_to_play # NoMove
           THEN /\ pc' = "done"
                /\ result' = [status |-> "returned", move |-> move_to_play, depth |-> None,
                              nodes |-> None, is_book |-> TRUE]
                /\ UNCHANGED <<search, fb>>
           ELSE /\ pc' = "deepen"
                /\ search' = StartSearch(search)
                /\ fb' = [NoLocals EXCEPT !.depth = 1, !.color_to_play = root.color_to_play]
                /\ UNCHANGED result
  /\ root0' = root
  /\ UNCHANGED <<root, search_board, stack, ret>>
  /\ UNCHANGED boardVars
  /\ UNCHANGED serviceVars

\* an iteration of the deepening loop up to the call of search_root, which
\* runs to its first recursive call
Deepen(expired) ==
  /\ pc = "deepen"
  /\ fb.depth <= search.depth
  /\ LET sb == SearchBoard(root)
         S == [search EXCEPT !.max_q_depth = 0]
     IN /\ search_board' = sb
        /\ search' = S
        /\ IF expired
           THEN /\ pc' = "done"
                /\ result' = find_best_move_result(fb, S)
                /\ UNCHANGED <<stack, oids>>
           ELSE \E f \in {search_root_entry(
                             NewFrame("search_root", fb.color_to_play, -INFINITY, INFINITY,
                                      fb.depth, 0, 0),
                             sb.position, S, oids, fb.final_best_move)} :
                /\ pc' = "search"
                /\ stack' = <<f>>
                /\ oids' = oids + Len(f.legal_moves)
                /\ UNCHANGED result
  /\ ret' = NoReturn
  /\ UNCHANGED <<root, fb, root0>>
  /\ UNCHANGED boardVars
  /\ UNCHANGED serviceVars

\* the deepening loop ran through every depth
DeepenEnd ==
  /\ pc = "deepen"
  /\ fb.depth > search.depth
  /\ pc' = "done"
  /\ result' = find_best_move_result(fb, search)
  /\ UNCHANGED <<root, search, search_board, stack, ret, fb, oids, root0>>
  /\ UNCHANGED boardVars
  /\ UNCHANGED serviceVars

\* search_root from one recursive call to the next, or to its return and
\* what find_best_move does with the move
RootStep ==
  /\ pc = "search"
  /\ Top.fn = "search_root"
  /\ \E run \in {search_root_loop(Top, search_board.position, ret)} :
        /\ search_board' = [search_board EXCEPT !.position = run.position]
        /\ root' = Caller(search_board, run.position, root)
        /\ IF run.kind = "call"
           THEN /\ stack' = <<run.frame, run.child>>
                /\ UNCHANGED <<pc, fb, result>>
           ELSE /\ stack' = <<>>
                /\ IF run.best_move # NoMove
                   THEN /\ fb' = AfterRootSearch(fb, run.best_move, run.best_eval)
                        /\ pc' = "deepen"
                        /\ UNCHANGED result
                   ELSE /\ pc' = "done"
                        /\ result' = find_best_move_result(fb, search)
                        /\ UNCHANGED fb
  /\ ret' = NoReturn
  /\ UNCHANGED <<search, oids, root0>>
  /\ UNCHANGED boardVars
  /\ UNCHANGED serviceVars

\* TimeUpError leaves every activation and is caught by find_best_move
TimeUp(S) ==
  /\ pc' = "done"
  /\ fb' = [fb EXCEPT !.timed_out = fb.depth]
  /\ result' = find_best_move_result(fb, S)
  /\ search' = S
  /\ stack' = <<>>
  /\ ret' = NoReturn
  /\ UNCHANGED oids

\* minimax from its call to its first recursive call or its return
MinimaxEnter(expired) ==
  /\ pc = "search"
  /\ Top.fn = "minimax"
  /\ Top.stage = "enter"
  /\ LET S == [search EXCEPT !.nodes_searched = @ + 1]
     IN IF expired THEN TimeUp(search)
        ELSE IF is_repetition_raises(search_board.position)
        THEN /\ pc' = "done"
             /\ result' = [status |-> "raised"]
             /\ search' = S
             /\ stack' = <<>>
             /\ ret' = NoReturn
             /\ UNCHANGED <<fb, oids>>
        ELSE \E e \in {minimax_entry(Top, search_board.position, S, oids)} :
             /\ search' = S
             /\ oids' = oids + e.made
             /\ stack' = IF e.kind = "return" THEN Rest
                         ELSE IF e.kind = "quiescence"
                         THEN ReplaceTop(NewFrame("quiescence_search", Top.color_to_play,
                                                  Top.alpha, Top.beta, 0, Top.ply, 1))
                         ELSE ReplaceTop(e.frame)
             /\ ret' = IF e.kind = "return" THEN Returned(e.value) ELSE NoReturn
             /\ UNCHANGED <<pc, fb, result>>
  /\ UNCHANGED <<root, search_board, root0>>
  /\ UNCHANGED boardVars
  /\ UNCHANGED serviceVars

\* minimax from one recursive call to the next, or to its return
MinimaxStep ==
  /\ pc = "search"
  /\ Top.fn = "minimax"
  /\ Top.stage = "loop"
  /\ \E run \in {minimax_loop(Top, search_board.position, search, ret)} :
        /\ search_board' = [search_board EXCEPT !.position = run.position]
        /\ root' = Caller(search_board, run.position, root)
        /\ search' = run.search
        /\ IF run.kind = "call"
           THEN /\ stack' = Append(ReplaceTop(run.frame), run.child)
                /\ ret' = NoReturn
           ELSE /\ stack' = Rest
                /\ ret' = Returned(run.value)
  /\ UNCHANGED <<fb, pc, result, oids, root0>>
  /\ UNCHANGED boardVars
  /\ UNCHANGED serviceVars

\* quiescence_search from its call to its first recursive call or its return
QuiescenceEnter(expired) ==
  /\ pc = "search"
  /\ Top.fn = "quiescence_search"
  /\ Top.stage = "enter"
  /\ LET S0 == [search EXCEPT !.max_q_depth = Max(@, Top.q_depth)]
         S == [S0 EXCEPT !.nodes_searched = @ + 1]
     IN IF expired THEN TimeUp(S0)
        ELSE \E e \in {quiescence_entry(Top, search_board.position, S, oids)} :
             /\ search' = S
             /\ oids' = oids + e.made
             /\ stack' = IF e.kind = "return" THEN Rest ELSE ReplaceTop(e.frame)
             /\ ret' = IF e.kind = "return" THEN Returned(e.value) ELSE NoReturn
             /\ UNCHANGED <<pc, fb, result>>
  /\ UNCHANGED <<root, search_board, root0>>
  /\ UNCHANGED boardVars
  /\ UNCHANGED serviceVars

\* quiescence_search from one recursive call to the next, or to its return
QuiescenceStep ==
  /\ pc = "search"
  /\ Top.fn = "quiescence_search"
  /\ Top.stage = "loop"
  /\ \E run \in {quiescence_loop(Top, search_board.position, ret)} :
        /\ search_board' = [search_board EXCEPT !.position = run.position]
        /\ root' = Caller(search_board, run.position, root)
        /\ IF run.kind = "call"
           THEN /\ stack' = Append(ReplaceTop(run.frame), run.child)
                /\ ret' = NoReturn
           ELSE /\ stack' = Rest
                /\ ret' = Returned(run.value)
  /\ UNCHANGED <<search, fb, pc, result, oids, root0>>
  /\ UNCHANGED boardVars
  /\ UNCHANGED serviceVars

NextSearch ==
  \/ \E book \in BOOK_ANSWERS : FindBestMove(book)
  \/ \E expired \in BOOLEAN : Deepen(expired)
  \/ DeepenEnd
  \/ RootStep
  \/ \E expired \in BOOLEAN : MinimaxEnter(expired)
  \/ MinimaxStep
  \/ \E expired \in BOOLEAN : QuiescenceEnter(expired)
  \/ QuiescenceStep

SpecSearch == InitSearch /\ [][NextSearch]_vars

\* find_best_move searching deeper, on the Board after
\* f2f3 a7a6 d2d3 e7e5 e2e3 d8h4 (white is in check and has three moves)
MaxDeepDepth == 3   \* Search.depth of the deeper search

GAME_CHECK ==
  <<Uci("f", "2", "f", "3"), Uci("a", "7", "a", "6"),
    Uci("d", "2", "d", "3"), Uci("e", "7", "e", "5"),
    Uci("e", "2", "e", "3"), Uci("d", "8", "h", "4")>>

\* the session after _new_game made the player's moves on board
SessionStart(board, depth) ==
  /\ root = board
  /\ loaded = <<>>
  /\ gen = NoValue
  /\ made = <<>>
  /\ snaps = <<>>
  /\ ops = 0
  /\ last = [op |-> "init", move |-> NoValue, before |-> NewBoard]
  /\ search = NewSearch(depth)
  /\ search_board = [position |-> NewBoard, is_root_node |-> FALSE]
  /\ stack = <<>>
  /\ ret = NoReturn
  /\ fb = NoLocals
  /\ pc = "idle"
  /\ result = NoResult
  /\ oids = 0
  /\ root0 = NewBoard
  /\ ServiceIdle
  /\ chess = NoChess

InitDeep == SessionStart(PlayMoves(NewBoard, GAME_CHECK), MaxDeepDepth)

SpecDeep == InitDeep /\ [][NextSearch]_vars

\* Two turns of the engine in one session, with one Search object: after
\* b2b3 b8c6 d2d3 c6a5 c1h6 e7e5 h6g7 h7h6 g2g3 f8b4 (white is in check and
\* has five moves) the engine moves, the player answers, the engine moves
MaxTurnDepth == 4   \* Search.depth of the session

GAME_BISHOP_OUT ==
  <<Uci("b", "2", "b", "3"), Uci("b", "8", "c", "6"),
    Uci("d", "2", "d", "3"), Uci("c", "6", "a", "5"),
    Uci("c", "1", "h", "6")>>

\* the moves that follow GAME_BISHOP_OUT
GAME_BISHOP_CHECK ==
  <<Uci("e", "7", "e", "5"), Uci("h", "6", "g", "7"),
    Uci("h", "7", "h", "6"), Uci("g", "2", "g", "3"),
    Uci("f", "8", "b", "4")>>

BOARD_BISHOP_OUT == PlayMoves(NewBoard, GAME_BISHOP_OUT)

\* the answers of the player
PLAYER_MOVES == {Uci("b", "4", "c", "3")}

InitTurns == SessionStart(PlayMoves(BOARD_BISHOP_OUT, GAME_BISHOP_CHECK), MaxTurnDepth)

\* _play_engine_turn makes the move find_best_move returned; the next
\* request makes the player's move and calls find_best_move again on the
\* Search of the session.  Followed only after a search that completed every
\* depth, to keep the number of second searches small.
PlayTurn(player_move) ==
  /\ pc = "done"
  /\ result.status = "returned"
  /\ result.move # NoMove
  /\ result.depth = search.depth
  /\ \E board \in {make_move(root, result.move.move)} :
     \E legal_moves \in {Objects(engine_generate_moves(board).legal_moves, oids)} :
     \E move_to_make \in {parse_user_move(player_move, legal_moves)} :
        /\ move_to_make # NoMove
        /\ root' = make_move(board, move_to_make.move)
        /\ oids' = oids + Len(legal_moves)
  /\ pc' = "idle"
  /\ result' = NoResult
  /\ fb' = NoLocals
  /\ UNCHANGED <<search, search_board, stack, ret, root0>>
  /\ UNCHANGED boardVars
  /\ UNCHANGED serviceVars

NextTurns ==
  \/ NextSearch
  \/ \E player_move \in PLAYER_MOVES : PlayTurn(player_move)

SpecTurns == InitTurns /\ [][NextTurns]_vars

----------------------------------------------------------------------------
\* Claims about find_best_move

Checkmates(position, move) ==
  LET g == engine_generate_moves(make_move(position, move))
  IN Len(g.legal_moves) = 0 /\ g.check_count > 0

\* C8: in a mate-in-1 position with white to move the root search at depth 1
\* returns a move that delivers checkmate, and the score the inner search
\* gives that move is +(99999 - 1), the mated node being one ply from the
\* root.
C8_MateInOneScore ==
  (/\ pc = "deepen"
   /\ Len(fb.root_moves) = 1
   /\ root0.color_to_play = "white"
   /\ \E move \in Range(LegalMoves(root0)) : Checkmates(root0, move))
  =>
    /\ Checkmates(root0, fb.root_moves[1].move)
    /\ fb.root_evals[1] = Centi(MATE_SCORE - 1)

----------------------------------------------------------------------------
\* perft (src/perft.py) on a new Board: every activation of perft with
\* depth > 0 is a frame of the stack; perft(board, 0) returns 1 at once.

MaxPerftDepth == 3   \* the deepest perft the driver calls

\* the counts of leaves of the game tree from the starting position
PERFT_NODES == <<20, 400, 8902, 197281, 4865609>>

PerftFrame(depth) ==
  [fn |-> "perft", stage |-> "enter", depth |-> depth, legal_moves |-> <<>>,
   move_index |-> 0, nodes |-> 0]

\* perft(test_board, depth) is called on the new Board
PerftCall(depth) ==
  /\ pc = "idle"
  /\ pc' = "perft"
  /\ stack' = <<PerftFrame(depth)>>
  /\ result' = [status |-> "running", depth |-> depth]
  /\ ret' = NoReturn
  /\ UNCHANGED <<root, search, search_board, fb, oids, root0>>
  /\ UNCHANGED boardVars
  /\ UNCHANGED serviceVars

\* nodes = 0; legal_moves = generate_moves(board)
PerftEnter ==
  /\ pc = "perft"
  /\ Top.stage = "enter"
  /\ stack' = ReplaceTop([Top EXCEPT !.stage = "loop",
                                     !.legal_moves = generate_moves(root).value])
  /\ UNCHANGED <<root, search, search_board, ret, fb, pc, result, oids, root0>>
  /\ UNCHANGED boardVars
  /\ UNCHANGED serviceVars

\* the for loop from the return of a recursive call to the next call, or
\* to `return nodes`
PerftStep ==
  /\ pc = "perft"
  /\ Top.stage = "loop"
  /\ LET f == Top
         nodes == IF ret.has THEN f.nodes + ret.value ELSE f.nodes
         next == IF ret.has THEN f.move_index + 1 ELSE 0
         Continue(board) ==
           IF next >= Len(f.legal_moves)
           THEN /\ root' = board
                /\ stack' = Rest
                /\ ret' = Returned(nodes)
                /\ IF Len(stack) = 1
                   THEN /\ pc' = "done"
                        /\ result' = [status |-> "returned", depth |-> f.depth,
                                      nodes |-> nodes]
                   ELSE UNCHANGED <<pc, result>>
           ELSE /\ root' = make_move(board, f.legal_moves[next + 1])
                /\ stack' =
                     LET g == [f EXCEPT !.nodes = nodes, !.move_index = next]
                     IN IF f.depth = 1 THEN ReplaceTop(g)
                        ELSE Append(ReplaceTop(g), PerftFrame(f.depth - 1))
                /\ ret' = IF f.depth = 1 THEN Returned(1) ELSE NoReturn
                /\ UNCHANGED <<pc, result>>
     IN Continue(IF ret.has THEN unmake_move(root, f.legal_moves[f.move_index + 1])
                 ELSE root)
  /\ UNCHANGED <<search, search_board, fb, oids, root0>>
  /\ UNCHANGED boardVars
  /\ UNCHANGED serviceVars

NextPerft ==
  \/ \E depth \in 1..MaxPerftDepth : PerftCall(depth)
  \/ PerftEnter
  \/ PerftStep

SpecPerft == Init /\ [][NextPerft]_vars

----------------------------------------------------------------------------
\* Claims about Move objects and the order of the moves

\* the Move objects a and b hold the same move
SameFields(a, b) ==
  /\ a.move.moving_piece = b.move.moving_piece
  /\ a.move.source_index = b.move.source_index
  /\ a.move.destination_index = b.move.destination_index
  /\ a.move.piece_captured = b.move.piece_captured
  /\ a.move.is_en_passant = b.move.is_en_passant
  /\ a.move.is_castle = b.move.is_castle
  /\ a.move.promotion_piece = b.move.promotion_piece

\* search_root is in its loop for a depth after the first
RootOfLaterDepth ==
  /\ pc = "search"
  /\ stack[1].fn = "search_root"
  /\ fb.final_best_move # NoMove

\* C13: two Move objects compare equal (==, in) iff moving_piece,
\* source_index, destination_index, piece_captured, is_en_passant, is_castle
\* and promotion_piece match; the Move of the last depth and the Move
\* generated for the same move at the root of the next depth compare equal.
C13_MovesEqualByFields ==
  RootOfLaterDepth =>
    \A k \in 1..Len(stack[1].legal_moves) :
      SameObject(stack[1].legal_moves[k], fb.final_best_move)
        <=> SameFields(stack[1].legal_moves[k], fb.final_best_move)

\* C17: at the root of the depth after a completed one, the best move of
\* the completed depth is the first of the root's ordered legal moves, so it
\* is made before any other.
C17_PreviousBestSearchedFirst ==
  RootOfLaterDepth =>
    SameFields(stack[1].legal_moves[1], fb.final_best_move)

\* C16: every value minimax returns is a finite score between -99999 and
\* +99999, also when futility pruning skips every move of a node, and no
\* infinite score is stored in the transposition table.
C16_MinimaxReturnsFiniteScores ==
  /\ (ret.has => Abs(ret.value) <= Centi(MATE_SCORE))
  /\ \A i \in DOMAIN search.transposition_table :
       Abs(search.transposition_table[i].eval) <= Centi(MATE_SCORE)

\* the activation of minimax on top of the stack has sorted its moves and
\* made none of them yet
MovesJustSorted ==
  /\ pc = "search"
  /\ stack # <<>>
  /\ Top.fn = "minimax"
  /\ Top.stage = "loop"
  /\ Top.call = "none"

\* C18: in minimax the moves are ordered hash move, captures, killers, then
\* the other quiet moves: no quiet move that is neither a killer of this
\* depth nor the hash move stands before a killer, a capture or the hash move.
C18_MoveOrderingPriorities ==
  MovesJustSorted =>
    LET f == Top
        IsHashMove(m) == f.hash_move # NoMove /\ SameFields(m, f.hash_move)
        IsKiller(m) ==
          \E k \in 1..2 : /\ search.killer_table[f.depth][k] # NoMove
                          /\ SameFields(m, search.killer_table[f.depth][k])
        Prior(m) == IsHashMove(m) \/ m.move.piece_captured # None \/ IsKiller(m)
    IN \A i, j \in 1..Len(f.legal_moves) :
         i < j /\ Prior(f.legal_moves[j]) => Prior(f.legal_moves[i])

\* Claims about the transposition table

\* the slot of the position minimax is looking at
ProbedEntry ==
  TTGet(search.transposition_table, TableIndex(search_board.position.zobrist_hash))

\* the slot holds an entry of this position
HashMatches ==
  /\ ProbedEntry # NoEntry
  /\ ProbedEntry.hash = search_board.position.zobrist_hash

\* the window [alpha, beta] after the flag and score of entry were applied
Tightened(f, entry) ==
  [alpha |-> IF entry.flag = "LOWERBOUND" THEN Max(f.alpha, entry.eval) ELSE f.alpha,
   beta |-> IF entry.flag = "UPPERBOUND" THEN Min(f.beta, entry.eval) ELSE f.beta]

\* minimax is entered on a position that has moves and no draw by the
\* fifty-move rule, with depth left, and returns without a recursive call
ReturnsFromTable ==
  /\ pc = "search"
  /\ stack # <<>>
  /\ Top.fn = "minimax"
  /\ Top.stage = "enter"
  /\ Top.depth > 0
  /\ pc' = "search"
  /\ stack' = Rest
  /\ ret'.has
  /\ oids' > oids
  /\ ~fifty_move_criteria_met(search_board.position)

ReturnsFromLoop ==
  /\ pc = "search"
  /\ stack # <<>>
  /\ Top.fn = "minimax"
  /\ Top.stage = "loop"
  /\ pc' = "search"
  /\ stack' = Rest
  /\ ret'.has

\* the replacement test for a write of depth over entry in cycle
GoesThrough(entry, depth, cycle) ==
  \/ entry = NoEntry
  \/ entry.age < cycle
  \/ depth >= entry.depth

----------------------------------------------------------------------------
\* Claims about the en-passant square and the castling rights

\* move is a two-square advance of a pawn from its home rank
DoublePawnAdvance(move) ==
  \/ /\ move.moving_piece = "P"
     /\ move.source_index \in 81..88
     /\ move.destination_index = move.source_index - 20
  \/ /\ move.moving_piece = "p"
     /\ move.source_index \in 31..38
     /\ move.destination_index = move.source_index + 20

\* the square between the source and the destination of a double advance
SkippedSquare(move) == (move.source_index + move.destination_index) \div 2

\* what zobrist_hash and compute_hash differ by
HashOffset(p) == Xor(p.zobrist_hash, compute_hash(p))

\* C21: after make_move(m) the en-passant square is set if and only if m is
\* a two-square advance of a pawn from its home rank, and is then the empty
\* square the pawn skipped; after any other move it is none; the en-passant
\* file keys go out of and into the hash with it (the hash moves with
\* compute_hash but for the side-to-move key).
C21_EnPassantSquareOnePly ==
  last.op = "make" =>
    /\ IF DoublePawnAdvance(last.move)
       THEN /\ root.en_passant_square = SkippedSquare(last.move)
            /\ root.board[root.en_passant_square] = EMPTY
       ELSE root.en_passant_square = NoSquare
    /\ HashOffset(root) = Xor(HashOffset(last.before), ZOBRIST_COLOR_KEY)

\* a move that is no double advance was made on a Board with an en-passant
\* square
C21_Witness ==
  /\ last.op = "make"
  /\ last.before.en_passant_square # NoSquare
  /\ ~DoublePawnAdvance(last.move)
  /\ root.en_passant_square = NoSquare
  /\ Len(made) = 2
  /\ DoublePawnAdvance(made[1])

\* the castling rights of p, in the order of get_castle_rights_code
CastleRights(p) ==
  <<p.white_castle_kingside, p.white_castle_queenside,
    p.black_castle_kingside, p.black_castle_queenside>>

\* king and rook of each castling right of p that is true stand on their
\* home squares
CastleRightsSound(p) ==
  /\ p.white_castle_kingside => p.board[95] = "K" /\ p.board[98] = "R"
  /\ p.white_castle_queenside => p.board[95] = "K" /\ p.board[91] = "R"
  /\ p.black_castle_kingside => p.board[25] = "k" /\ p.board[28] = "r"
  /\ p.black_castle_queenside => p.board[25] = "k" /\ p.board[21] = "r"

\* C22: a castling right is true only if the king and the rook it names
\* stand on their home squares, and make_move never turns a false right
\* back to true, also when a rook is captured on its home square and when
\* the move is a castle.
C22_CastlingRightsOnlyLost ==
  /\ CastleRightsSound(root)
  /\ last.op = "make" =>
       \A k \in 1..4 : CastleRights(root)[k] => CastleRights(last.before)[k]

\* a rook was captured on its home square by a rook that left its own, or a
\* side castled while the other side kept its rights
C22_Witness ==
  /\ last.op = "make"
  /\ \/ /\ last.move.piece_captured = "r"
        /\ last.move.destination_index = 28
        /\ last.before.black_castle_kingside
        /\ ~root.black_castle_kingside
        /\ last.before.white_castle_kingside
        /\ ~root.white_castle_kingside
     \/ /\ last.move.is_castle
        /\ CastleRights(last.before) = <<TRUE, TRUE, TRUE, TRUE>>
        /\ CastleRights(root) = <<FALSE, FALSE, TRUE, TRUE>>

\* the castle of the side to move to destination is in the generated list
CastleGenerated(destination) ==
  \E k \in 1..Len(gen.value) : gen.value[k].is_castle /\ gen.value[k].destination_index = destination

\* what the rules ask of a castle of the side to move in p: the right, no
\* check, the squares in between empty, the squares of the king's way out of
\* the threat map of the other side
MayCastle(p, right, between, way) ==
  LET white == p.color_to_play = "white"
      threat_map == get_threat_map(p, IF white THEN "black" ELSE "white").threat_map
  IN /\ right
     /\ ~KingAttacked(p.board, IF white THEN WhiteSet ELSE BlackSet)
     /\ \A i \in between : p.board[i] = EMPTY
     /\ \A i \in way : \A k \in 1..Len(threat_map) : threat_map[k] # i

\* C23: generate_moves returns a castle exactly when the right is true, the
\* king is not in check, the two (kingside) or three (queenside) squares
\* between king and rook are empty and no square the king passes through or
\* lands on is in the threat map; the b-file square of the queenside needs
\* to be empty only.
C23_CastlingGenerated ==
  gen # NoValue =>
    IF root.color_to_play = "white"
    THEN /\ CastleGenerated(97) <=>
              MayCastle(root, root.white_castle_kingside, {96, 97}, {96, 97})
         /\ CastleGenerated(93) <=>
              MayCastle(root, root.white_castle_queenside, {92, 93, 94}, {93, 94})
         /\ \A k \in 1..Len(gen.value) :
              gen.value[k].is_castle =>
                gen.value[k].source_index = 95 /\ gen.value[k].destination_index \in {93, 97}
    ELSE /\ CastleGenerated(27) <=>
              MayCastle(root, root.black_castle_kingside, {26, 27}, {26, 27})
         /\ CastleGenerated(23) <=>
              MayCastle(root, root.black_castle_queenside, {22, 23, 24}, {23, 24})
         /\ \A k \in 1..Len(gen.value) :
              gen.value[k].is_castle =>
                gen.value[k].source_index = 25 /\ gen.value[k].destination_index \in {23, 27}

\* black castles queenside although the white rook on b1 attacks b8
C23_Witness ==
  /\ gen # NoValue
  /\ root.color_to_play = "black"
  /\ CastleGenerated(23)
  /\ root.board[92] = "R"
  /\ Attacked(root.board, 22, WhiteSet)

----------------------------------------------------------------------------
\* Claims about the evaluator's king-attack pressure

\* the squares of the ring around the king of board
KingRing(board, king) ==
  {sq \in PlayableSquares :
     \E at \in PlayableSquares : board[at] = king /\ (sq - at) \in Range(KING_DELTAS)}

\* the attack score of the side of queen, rook, bishop and knight on the ring
\* of king: 5, 4, 2 and 2 for each attack that falls on a square of the ring
RingAttackScore(board, queen, rook, bishop, knight, king) ==
  LET AttacksBy(piece) ==
        Cardinality({pair \in PlayableSquares \X KingRing(board, king) :
                       board[pair[1]] = piece /\ Attacks(board, pair[1], pair[2])})
  IN 5 * AttacksBy(queen) + 4 * AttacksBy(rook)
     + 2 * AttacksBy(bishop) + 2 * AttacksBy(knight)

\* the attack score evaluate_position adds up for the side of pieces against
\* the ring of king
CountedAttackScore(position, pieces, king) ==
  LET king_index == position.piece_lists[king][1]
      king_ring == [k \in 1..8 |-> king_index + KING_DELTAS[k]]
      piece_lists == position.piece_lists
  IN SumAll(Flatten([c \in 1..6 |->
       [k \in 1..Len(piece_lists[pieces[c]]) |->
          PieceTerms(position.board, pieces[c], piece_lists[pieces[c]][k],
                     king_ring).attack]]))

\* C24: the attack score evaluate_position counts for a side is 5, 4, 2 and
\* 2 for each attack of its queens, rooks, bishops and knights on a square of
\* the ring around the other king, so that the penalty
\* KING_ATTACK_PENALTIES[min(score, 9)] of a king whose ring is attacked
\* differs from that of a king whose ring is not.
C24_KingAttackPressureCounted ==
  (/\ gen = NoValue
   /\ root.piece_lists["K"] # <<>>
   /\ root.piece_lists["k"] # <<>>) =>
    /\ CountedAttackScore(root, WHITE_PIECES, "k")
         = RingAttackScore(root.board, "Q", "R", "B", "N", "k")
    /\ CountedAttackScore(root, BLACK_PIECES, "K")
         = RingAttackScore(root.board, "q", "r", "b", "n", "K")

----------------------------------------------------------------------------
\* Quiescence search to its depth limit: a session after
\* b1c3 b7b5 b2b3 a7a6 h2h3 e7e5 c3a4 f8a3 f2f4 d7d6, find_best_move for
\* white.

MaxQuietDepth == 2   \* Search.depth of the search that ends in quiescence

GAME_KNIGHT_OUT ==
  <<Uci("b", "1", "c", "3"), Uci("b", "7", "b", "5"),
    Uci("b", "2", "b", "3"), Uci("a", "7", "a", "6"),
    Uci("h", "2", "h", "3")>>

GAME_KNIGHT_RIM ==
  <<Uci("e", "7", "e", "5"), Uci("c", "3", "a", "4"),
    Uci("f", "8", "a", "3"), Uci("f", "2", "f", "4"),
    Uci("d", "7", "d", "6")>>

BOARD_KNIGHT_OUT == PlayMoves(NewBoard, GAME_KNIGHT_OUT)

InitQuiescence ==
  SessionStart(PlayMoves(BOARD_KNIGHT_OUT, GAME_KNIGHT_RIM), MaxQuietDepth)

SpecQuiescence == InitQuiescence /\ [][NextSearch]_vars

\* the activation k of the stack is one of quiescence_search
InQuiescence(k) == stack[k].fn = "quiescence_search"

\* the values quiescence_search returns without a look at a move: the
\* static evaluation, or the mate or stalemate score
StaticValues(position, ply) ==
  {evaluate_position(position), 0, Centi(-99999 + ply), Centi(99999 - ply)}

\* how far the activation f of quiescence_search has come: 0 before its
\* loop, 1 in its loop before a move is made, 2 + i after the call for the
\* move at index i
Progress(f) ==
  IF f.stage = "enter" THEN 0
  ELSE IF f.call = "none" THEN 1
  ELSE 2 + f.move_index

\* the progress of the activations of quiescence_search on the stack from
\* the outermost to the innermost, closed by a value above the progress of
\* every activation when the activation above the innermost has just
\* returned
QuiescenceProgress ==
  LET frames == SelectSeq(stack, LAMBDA f : f.fn = "quiescence_search")
  IN [k \in 1..Len(frames) |-> Progress(frames[k])]
     \o (IF ret.has THEN <<INFINITY>> ELSE <<>>)

\* a comes before b in the lexicographic order
LexLess(a, b) ==
  \/ Len(a) < Len(b) /\ \A k \in 1..Len(a) : a[k] = b[k]
  \/ \E k \in 1..Min(Len(a), Len(b)) :
       /\ a[k] < b[k]
       /\ \A j \in 1..(k - 1) : a[j] = b[j]

----------------------------------------------------------------------------
\* The game service (src/backend): the dispatcher's request threads, the
\* prune round, the shared counters under session_count_lock and the worker
\* processes with their queues and sessions.  A block under the lock is one
\* step.  A uuid is named after the request that draws it: the task of
\* request thread r has task_id r and the game it creates has game_id r,
\* the prune task for worker i has task_id PruneTaskId(i).
\*
\* A session's Board is held as the list of the moves made on it since
\* Board(); the Board itself is PlayMoves(NewBoard, moves).

MaxPruneRounds == 1   \* prune rounds in one run

F2F3 == Uci("f", "2", "f", "3")
G2G4 == Uci("g", "2", "g", "4")
E7E5 == Uci("e", "7", "e", "5")
D8H4 == Uci("d", "8", "h", "4")

NoPlayerMove == <<>>   \* player_move None

\* the moves a client sends, and the moves the opening book holds for the
\* engine: get_book_move gives the first of ENGINE_LINE that is legal
CLIENT_MOVES == {E7E5, D8H4}
ENGINE_LINE == <<F2F3, G2G4>>

\* the game the clients play with the engine as white; a session's Board is
\* the Board after some of its moves
SERVED_LINE == <<F2F3, E7E5, G2G4, D8H4>>
SERVED_GAMES == {SubSeq(SERVED_LINE, 1, n) : n \in 0..Len(SERVED_LINE)}

\* the Boards after 1, 2, 3 and 4 moves of SERVED_LINE, and all five
BOARD_F2F3 == PlayMoves(NewBoard, <<F2F3>>)
BOARD_E7E5 == PlayMoves(BOARD_F2F3, <<E7E5>>)
BOARD_G2G4 == PlayMoves(BOARD_E7E5, <<G2G4>>)
BOARD_D8H4 == PlayMoves(BOARD_G2G4, <<D8H4>>)
SERVED_BOARDS == <<NewBoard, BOARD_F2F3, BOARD_E7E5, BOARD_G2G4, BOARD_D8H4>>

\* the moves of CLIENT_MOVES and ENGINE_LINE that parse_user_move finds among
\* the generated moves of board
LegalReplies(board) ==
  UNION {{uci \in CLIENT_MOVES \cup Range(ENGINE_LINE) :
            parse_user_move(uci, legal_moves) # NoMove} :
         legal_moves \in {Objects(engine_generate_moves(board).legal_moves, 0)}}

\* generate_moves and parse_user_move on the Board after game
LegalOn(game) == chess.legal_replies[Len(game) + 1]

\* engine_response['move'] of find_best_move on the Board after game: the
\* book move, or None (here NoBook) when the side to move has no legal move.
\* (With legal moves and none of them in the book the search would choose;
\* the served games have no such position.)
EngineAnswer(game) ==
  LET replies == {k \in 1..Len(ENGINE_LINE) : ENGINE_LINE[k] \in LegalOn(game)}
  IN IF replies = {} THEN NoBook
     ELSE ENGINE_LINE[CHOOSE k \in replies : \A j \in replies : k <= j]

\* board_to_fen: the six fields of the string, the placement square by square
board_to_fen(board) ==
  <<[k \in 1..64 |-> board.board[21 + 10 * ((k - 1) \div 8) + ((k - 1) % 8)]],
    IF board.color_to_play = "white" THEN "w" ELSE "b",
    <<board.white_castle_kingside, board.white_castle_queenside,
      board.black_castle_kingside, board.black_castle_queenside>>,
    board.en_passant_square,
    board.half_move,
    board.ply \div 2 + 1>>

\* the chess core on the Boards after 0 .. 4 moves of SERVED_LINE
CHESS ==
  [legal_replies |-> [k \in 1..Len(SERVED_BOARDS) |-> LegalReplies(SERVED_BOARDS[k])],
   fen_of |-> [k \in 1..Len(SERVED_BOARDS) |-> board_to_fen(SERVED_BOARDS[k])]]

\* board_to_fen of the Board after game
FenOf(game) == chess.fen_of[Len(game) + 1]

\* the FENs a client holds: after the engine's first and second move
CLIENT_FENS == {FenOf(<<F2F3>>), FenOf(<<F2F3, E7E5, G2G4>>)}

\* dict[key] = value and del dict[key]
Assign(dict, key, value) ==
  [k \in (DOMAIN dict) \cup {key} |-> IF k = key THEN value ELSE dict[k]]
Del(dict, key) == [k \in (DOMAIN dict) \ {key} |-> dict[k]]

\* Queue.put
Put(queues, worker_id, task) ==
  [queues EXCEPT ![worker_id] = Append(@, task)]

PruneTaskId(worker_id) == 10 + worker_id

\* _prune_inactive_sessions: the sessions whose last activity is more than
\* SESSION_TIMEOUT ago are deleted
_prune_inactive_sessions(sessions) ==
  [game_id \in {id \in DOMAIN sessions : ~sessions[id].timed_out} |-> sessions[game_id]]

\* _make_player_move on the Board after game
_make_player_move(game, player_move) ==
  IF player_move \in LegalOn(game)
  THEN [raised |-> FALSE, board |-> Append(game, player_move)]
  ELSE [raised |-> TRUE, board |-> game]

\* _play_engine_turn on the Board after game
_play_engine_turn(game) ==
  IF EngineAnswer(game) = NoBook
  THEN [raised |-> TRUE, board |-> game]
  ELSE [raised |-> FALSE, board |-> Append(game, EngineAnswer(game))]

\* _new_game: the sessions it leaves and what it returns or raises
_new_game(sessions, player_move, game_id) ==
  LET Session(board) == [board |-> board, timed_out |-> FALSE]
      player == IF player_move # NoPlayerMove
                THEN _make_player_move(<<>>, player_move)
                ELSE [raised |-> FALSE, board |-> <<>>]
      engine == _play_engine_turn(player.board)
  IN IF player.raised
     THEN [sessions |-> Assign(sessions, game_id, Session(player.board)),
           status |-> "error", data |-> "User-provided move is invalid"]
     ELSE IF engine.raised
     THEN [sessions |-> Assign(sessions, game_id, Session(player.board)),
           status |-> "error", data |-> "Engine failed to find a move"]
     ELSE [sessions |-> Assign(sessions, game_id, Session(engine.board)),
           status |-> "ok", data |-> game_id]

\* _play_move: the sessions it leaves and what it returns or raises
_play_move(sessions, player_move, session_id, client_fen) ==
  IF session_id \notin DOMAIN sessions
  THEN [sessions |-> sessions, status |-> "error", data |-> "Invalid or expired session ID"]
  ELSE
    LET session_data == sessions[session_id]
        player == _make_player_move(session_data.board, player_move)
        engine == _play_engine_turn(player.board)
        Left(board) == Assign(sessions, session_id, [session_data EXCEPT !.board = board])
    IN IF FenOf(session_data.board) # client_fen
       THEN [sessions |-> sessions, status |-> "error", data |-> "Client board is out of sync"]
       ELSE IF player.raised
       THEN [sessions |-> sessions, status |-> "error",
             data |-> "User-provided move is invalid"]
       ELSE IF engine.raised
       THEN [sessions |-> Left(player.board), status |-> "error",
             data |-> "Engine failed to find a move"]
       ELSE [sessions |-> Assign(sessions, session_id,
                                 [board |-> engine.board, timed_out |-> FALSE]),
             status |-> "ok", data |-> "fen"]

\* one turn of run_worker's loop after task_queue.get(): the sessions it
\* leaves and the entry it writes to result_dict, if any
run_worker(sessions, task) ==
  CASE task.command = "new_game" ->
         LET done == _new_game(_prune_inactive_sessions(sessions), task.player_move,
                               task.task_id)
         IN [sessions |-> done.sessions, writes |-> TRUE,
             result |-> [status |-> done.status, data |-> done.data]]
    [] task.command = "play_move" ->
         LET done == _play_move(sessions, task.player_move, task.session_id,
                                task.client_fen)
         IN [sessions |-> done.sessions, writes |-> TRUE,
             result |-> [status |-> done.status, data |-> done.data]]
    [] task.command = "prune_sessions" ->
         LET left == _prune_inactive_sessions(sessions)
         IN [sessions |-> left, writes |-> TRUE,
             result |-> [status |-> "ok",
                         data |-> Cardinality(DOMAIN sessions) - Cardinality(DOMAIN left)]]
    [] task.command = "prune_single_session" ->
         [sessions |-> IF task.session_id \in DOMAIN sessions
                       THEN Del(sessions, task.session_id) ELSE sessions,
          writes |-> FALSE, result |-> [status |-> "none", data |-> "none"]]
    [] OTHER ->
         [sessions |-> sessions, writes |-> TRUE,
          result |-> [status |-> "error", data |-> "Unknown command"]]

NewTask(task_id, command, player_move, session_id, client_fen) ==
  [task_id |-> task_id, command |-> command, player_move |-> player_move,
   session_id |-> session_id, client_fen |-> client_fen]

MaxInFlight == 2   \* requests under way at a time

\* request thread r has not started, those before it have, and fewer than
\* MaxInFlight requests are under way
MayStart(r) ==
  /\ requests[r].pc = "idle"
  /\ r > 1 => requests[r - 1].pc # "idle"
  /\ Cardinality({q \in 1..MaxRequests : requests[q].pc \in {"reserved", "waiting"}}) < MaxInFlight

Done(outcome) == [pc |-> "done", outcome |-> outcome]

\* new_game_task, first block under the lock: the slot is reserved or the
\* request is refused
NewGameReserve(r, player_move) ==
  /\ MayStart(r)
  /\ IF session_count >= MAX_SESSIONS
     THEN /\ requests' = [requests EXCEPT ![r] = Done("capacity")]
          /\ UNCHANGED session_count
     ELSE /\ session_count' = session_count + 1
          /\ requests' = [requests EXCEPT ![r] =
                            [pc |-> "reserved", command |-> "new_game",
                             player_move |-> player_move]]
  /\ UNCHANGED <<worker_load, session_map, task_queues, results_dict, active_sessions,
                 current, pruner, answers>>
  /\ UNCHANGED <<root, boardVars, searchVars, chess>>

\* new_game_task, second block under the lock and the put of _dispatch_task
NewGameDispatch(r) ==
  /\ requests[r].pc = "reserved"
  /\ LET target_worker_id ==
           CHOOSE i \in Workers :
             /\ \A j \in Workers : worker_load[i] <= worker_load[j]
             /\ \A j \in Workers : j < i => worker_load[j] > worker_load[i]
     IN /\ worker_load' = [worker_load EXCEPT ![target_worker_id] = @ + 1]
        /\ task_queues' = Put(task_queues, target_worker_id,
                              NewTask(r, "new_game", requests[r].player_move, 0, <<>>))
        /\ requests' = [requests EXCEPT ![r] =
                          [pc |-> "waiting", command |-> "new_game",
                           target_worker_id |-> target_worker_id]]
  /\ UNCHANGED <<session_count, session_map, results_dict, active_sessions, current,
                 pruner, answers>>
  /\ UNCHANGED <<root, boardVars, searchVars, chess>>

\* play_move_task up to the put of _dispatch_task
PlayMoveDispatch(r, session_id, player_move, client_fen) ==
  /\ MayStart(r)
  /\ IF session_id \notin DOMAIN session_map
     THEN /\ requests' = [requests EXCEPT ![r] = Done("KeyError")]
          /\ UNCHANGED task_queues
     ELSE /\ task_queues' = Put(task_queues, session_map[session_id],
                                NewTask(r, "play_move", player_move, session_id, client_fen))
          /\ requests' = [requests EXCEPT ![r] =
                            [pc |-> "waiting", command |-> "play_move",
                             target_worker_id |-> session_map[session_id]]]
  /\ UNCHANGED <<session_count, worker_load, session_map, results_dict, active_sessions,
                 current, pruner, answers>>
  /\ UNCHANGED <<root, boardVars, searchVars, chess>>

\* _dispatch_task with another command, from a caller that is not among the
\* sources: prune_single_session when a client unloads, or a command the
\* worker does not know
OtherDispatch(r, command, session_id) ==
  /\ MayStart(r)
  /\ session_id \in DOMAIN session_map
  /\ task_queues' = Put(task_queues, session_map[session_id],
                        NewTask(r, command, NoPlayerMove, session_id, <<>>))
  /\ requests' = [requests EXCEPT ![r] =
                    [pc |-> "waiting", command |-> command,
                     target_worker_id |-> session_map[session_id]]]
  /\ UNCHANGED <<session_count, worker_load, session_map, results_dict, active_sessions,
                 current, pruner, answers>>
  /\ UNCHANGED <<root, boardVars, searchVars, chess>>

\* _dispatch_task finds its task_id in results_dict, and what its caller does
\* with the result or the RuntimeError
DispatchReturns(r) ==
  /\ requests[r].pc = "waiting"
  /\ r \in DOMAIN results_dict
  /\ results_dict' = Del(results_dict, r)
  /\ LET status == results_dict[r].status
         target_worker_id == requests[r].target_worker_id
     IN IF requests[r].command = "new_game"
        THEN IF status = "error"
             THEN /\ session_count' = session_count - 1
                  /\ worker_load' = [worker_load EXCEPT ![target_worker_id] = @ - 1]
                  /\ requests' = [requests EXCEPT ![r] = Done("RuntimeError")]
                  /\ UNCHANGED session_map
             ELSE /\ session_map' = Assign(session_map, results_dict[r].data,
                                           target_worker_id)
                  /\ requests' = [requests EXCEPT ![r] = Done("ok")]
                  /\ UNCHANGED <<session_count, worker_load>>
        ELSE /\ requests' = [requests EXCEPT ![r] =
                               Done(IF status = "error" THEN "RuntimeError" ELSE "ok")]
             /\ UNCHANGED <<session_count, worker_load, session_map>>
  /\ UNCHANGED <<task_queues, active_sessions, current, pruner, answers>>
  /\ UNCHANGED <<root, boardVars, searchVars, chess>>

\* _dispatch_task waits longer than WORKER_TIMEOUT, and what its caller does
\* with the TimeoutError
DispatchTimesOut(r) ==
  /\ requests[r].pc = "waiting"
  /\ r \notin DOMAIN results_dict
  /\ requests' = [requests EXCEPT ![r] = Done("TimeoutError")]
  /\ IF requests[r].command = "new_game"
     THEN /\ session_count' = session_count - 1
          /\ worker_load' = [worker_load EXCEPT ![requests[r].target_worker_id] = @ - 1]
     ELSE UNCHANGED <<session_count, worker_load>>
  /\ UNCHANGED <<session_map, task_queues, results_dict, active_sessions, current,
                 pruner, answers>>
  /\ UNCHANGED <<root, boardVars, searchVars, chess>>

\* trigger_prune: a prune_sessions task is put on every queue
PruneDispatch ==
  /\ pruner.pc = "idle"
  /\ pruner.rounds < MaxPruneRounds
  /\ task_queues' =
       [i \in Workers |->
          Append(task_queues[i],
                 NewTask(PruneTaskId(i), "prune_sessions", NoPlayerMove, 0, <<>>))]
  /\ pruner' = [pc |-> "waiting", rounds |-> pruner.rounds + 1, pruned_counts |-> <<>>]
  /\ UNCHANGED <<session_count, worker_load, session_map, results_dict, active_sessions,
                 current, requests, answers>>
  /\ UNCHANGED <<root, boardVars, searchVars, chess>>

\* trigger_prune: one pass over the workers that have not responded yet
PruneCollect ==
  /\ pruner.pc = "waiting"
  /\ LET responded ==
           {i \in Workers : i \notin DOMAIN pruner.pruned_counts
                            /\ PruneTaskId(i) \in DOMAIN results_dict}
     IN /\ responded # {}
        /\ results_dict' =
             [id \in (DOMAIN results_dict) \ {PruneTaskId(i) : i \in responded} |->
                results_dict[id]]
        /\ pruner' =
             [pruner EXCEPT !.pruned_counts =
                [i \in (DOMAIN pruner.pruned_counts) \cup responded |->
                   IF i \in responded
                   THEN (IF results_dict[PruneTaskId(i)].status = "ok"
                         THEN results_dict[PruneTaskId(i)].data ELSE 0)
                   ELSE pruner.pruned_counts[i]]]
  /\ UNCHANGED <<session_count, worker_load, session_map, task_queues, active_sessions,
                 current, requests, answers>>
  /\ UNCHANGED <<root, boardVars, searchVars, chess>>

\* trigger_prune: every worker has responded, the counters are updated under
\* the lock
PruneUpdate ==
  /\ pruner.pc = "waiting"
  /\ DOMAIN pruner.pruned_counts = Workers
  /\ LET pruned_counts == pruner.pruned_counts
         total_pruned == SumAll([k \in 1..NUM_WORKERS |-> pruned_counts[k - 1]])
     IN /\ worker_load' =
             [i \in Workers |->
                IF pruned_counts[i] > 0
                THEN Max(worker_load[i] - pruned_counts[i], 0)
                ELSE worker_load[i]]
        /\ session_count' = Max(session_count - total_pruned, 0)
  /\ pruner' = [pc |-> "idle", rounds |-> pruner.rounds]
  /\ UNCHANGED <<session_map, task_queues, results_dict, active_sessions, current,
                 requests, answers>>
  /\ UNCHANGED <<root, boardVars, searchVars, chess>>

\* trigger_prune waits longer than WORKER_TIMEOUT and gives the round up
PruneTimesOut ==
  /\ pruner.pc = "waiting"
  /\ DOMAIN pruner.pruned_counts # Workers
  /\ pruner' = [pc |-> "idle", rounds |-> pruner.rounds]
  /\ UNCHANGED <<session_count, worker_load, session_map, task_queues, results_dict,
                 active_sessions, current, requests, answers>>
  /\ UNCHANGED <<root, boardVars, searchVars, chess>>

\* run_worker: task_queue.get() returns a task
WorkerGet(i) ==
  /\ current[i] = NoTask
  /\ task_queues[i] # <<>>
  /\ current' = [current EXCEPT ![i] = Head(task_queues[i])]
  /\ task_queues' = [task_queues EXCEPT ![i] = Tail(@)]
  /\ UNCHANGED <<session_count, worker_load, session_map, results_dict, active_sessions,
                 requests, pruner, answers>>
  /\ UNCHANGED <<root, boardVars, searchVars, chess>>

\* run_worker: the task is handled and the worker is back at task_queue.get()
WorkerHandle(i) ==
  /\ current[i] # NoTask
  /\ \E done \in {run_worker(active_sessions[i], current[i])} :
       /\ active_sessions' = [active_sessions EXCEPT ![i] = done.sessions]
       /\ IF done.writes
          THEN /\ results_dict' = Assign(results_dict, current[i].task_id, done.result)
               /\ answers' = Assign(answers, current[i].task_id,
                                    IF current[i].task_id \in DOMAIN answers
                                    THEN answers[current[i].task_id] + 1 ELSE 1)
          ELSE UNCHANGED <<results_dict, answers>>
  /\ current' = [current EXCEPT ![i] = NoTask]
  /\ UNCHANGED <<session_count, worker_load, session_map, task_queues, requests, pruner>>
  /\ UNCHANGED <<root, boardVars, searchVars, chess>>

\* nothing is under way: no request, no prune round, no task
Quiet ==
  /\ \A r \in 1..MaxRequests : requests[r].pc \in {"idle", "done"}
  /\ pruner.pc = "idle"
  /\ \A i \in Workers : task_queues[i] = <<>> /\ current[i] = NoTask

\* time passes: the last activity of a session is more than SESSION_TIMEOUT
\* ago.  A request or a prune round waits WORKER_TIMEOUT at most and the
\* engine thinks ENGINE_THINK_TIME at most, so nothing that was under way
\* when the session was last active still is.
Expire(i, game_id) ==
  /\ Quiet
  /\ game_id \in DOMAIN active_sessions[i]
  /\ ~active_sessions[i][game_id].timed_out
  /\ active_sessions' = [active_sessions EXCEPT ![i][game_id].timed_out = TRUE]
  /\ UNCHANGED <<session_count, worker_load, session_map, task_queues, results_dict,
                 current, requests, pruner, answers>>
  /\ UNCHANGED <<root, boardVars, searchVars, chess>>

NextService ==
  \/ \E r \in 1..MaxRequests, player_move \in {NoPlayerMove, E7E5} :
       NewGameReserve(r, player_move)
  \/ \E r \in 1..MaxRequests : NewGameDispatch(r)
  \/ \E r \in 1..MaxRequests, session_id \in 1..MaxRequests,
        player_move \in CLIENT_MOVES, client_fen \in CLIENT_FENS :
       PlayMoveDispatch(r, session_id, player_move, client_fen)
  \/ \E r \in 1..MaxRequests, session_id \in 1..MaxRequests,
        command \in {"prune_single_session", "status"} :
       OtherDispatch(r, command, session_id)
  \/ \E r \in 1..MaxRequests : DispatchReturns(r)
  \/ \E r \in 1..MaxRequests : DispatchTimesOut(r)
  \/ PruneDispatch
  \/ PruneCollect
  \/ PruneUpdate
  \/ PruneTimesOut
  \/ \E i \in Workers : WorkerGet(i)
  \/ \E i \in Workers : WorkerHandle(i)
  \/ \E i \in Workers, game_id \in 1..MaxRequests : Expire(i, game_id)

\* the server starts: a new Board nobody plays on, no search, the shared
\* state of lifespan
InitService ==
  /\ root = NewBoard
  /\ loaded = <<>>
  /\ gen = NoValue
  /\ made = <<>>
  /\ snaps = <<>>
  /\ ops = 0
  /\ last = [op |-> "init", move |-> NoValue, before |-> NewBoard]
  /\ SearchIdle
  /\ ServiceIdle
  /\ chess = CHESS

SpecService == InitService /\ [][NextService]_vars

----------------------------------------------------------------------------
\* Claims about the game service.

\* the sessions held by the workers
TotalSessions ==
  SumAll([k \in 1..NUM_WORKERS |-> Cardinality(DOMAIN active_sessions[k - 1])])

\* C26: under any interleaving of new-game requests, failures, time-outs and
\* prune rounds the workers together never hold more than MAX_SESSIONS
\* sessions.
C26_SessionCap == TotalSessions <= MAX_SESSIONS

\* the second half of C26: a new-game request reserves a slot only below the
\* cap and is refused with the capacity error only at the cap
CapacityRule ==
  [][\A r \in 1..MaxRequests :
       requests[r].pc = "idle" =>
         /\ requests'[r].pc = "reserved" => session_count < MAX_SESSIONS
         /\ requests'[r] = Done("capacity") => session_count >= MAX_SESSIONS]_vars

\* C27: session_count and every worker_load entry are never negative.
C27_CountersNeverNegative ==
  /\ session_count >= 0
  /\ \A i \in Workers : worker_load[i] >= 0

\* worker i finishes the task it took from its queue
Handles(i) == current[i] # NoTask /\ current'[i] = NoTask

\* C28: whatever the command of a task a worker took from its queue, when the
\* worker is done with it exactly one entry has been written to results_dict
\* under its task_id.
C28_EveryTaskAnswered ==
  [][\A i \in Workers :
       Handles(i) =>
         /\ current[i].task_id \in DOMAIN answers'
         /\ answers'[current[i].task_id] = 1]_vars

\* C29: once the workers hold no session and nothing is under way,
\* session_count and every worker_load entry are 0.
C29_CapacityRecovered ==
  (TotalSessions = 0 /\ Quiet) =>
    /\ session_count = 0
    /\ \A i \in Workers : worker_load[i] = 0

\* worker i finishes a task of this command with an error
Fails(i, command) ==
  /\ Handles(i)
  /\ current[i].command = command
  /\ results_dict'[current[i].task_id].status = "error"

\* C30: a play_move that fails leaves the Board of its session as it was, and
\* a new_game that fails leaves no new entry in active_sessions.
C30_FailedRequestLeavesState ==
  [][\A i \in Workers :
       /\ Fails(i, "play_move") =>
            \A id \in DOMAIN active_sessions[i] :
              /\ id \in DOMAIN active_sessions'[i]
              /\ active_sessions'[i][id].board = active_sessions[i][id].board
       /\ Fails(i, "new_game") =>
            DOMAIN active_sessions'[i] \subseteq DOMAIN active_sessions[i]]_vars
====
